---- MODULE Spec2Model ----
(***************************************************************************)
(* Offer calculation engine of MeisterKI (src/index.ts) and the HTTP       *)
(* handler that wraps it.                                                  *)
(*                                                                         *)
(* JavaScript numbers are IEEE-754 binary64 values.  The model keeps them  *)
(* as such: a non-negative finite double is the pair <<m, e>> standing for *)
(* m * 2^e, where m is an odd natural number of at most 53 bits (zero is   *)
(* the pair of the empty mantissa and exponent 0).  m is held as a         *)
(* little-endian sequence of base-2^15 limbs because TLC's integers are 32 *)
(* bits wide.  Every arithmetic operator rounds its exact result to 53     *)
(* bits, ties to even, as the hardware does.  The code divides only by the *)
(* integer literals 8, 20, 25, 60 and 100, so division takes an integer    *)
(* divisor.  Negative numbers, infinities, NaN and subnormals are outside  *)
(* the inputs the model draws.                                             *)
(***************************************************************************)
EXTENDS Integers, Sequences, FiniteSets, TLC

-----------------------------------------------------------------------------
(* Natural numbers of arbitrary size: little-endian limbs, no leading zero *)

LimbBits == 15
Base == 32768

RECURSIVE Pow2(_)
Pow2(n) == IF n = 0 THEN 1 ELSE 2 * Pow2(n - 1)

RECURSIVE BTrim(_)
BTrim(a) ==
  IF a = <<>> THEN a
  ELSE IF a[Len(a)] = 0 THEN BTrim(SubSeq(a, 1, Len(a) - 1)) ELSE a

RECURSIVE BFromInt(_)
BFromInt(n) == IF n = 0 THEN <<>> ELSE <<n % Base>> \o BFromInt(n \div Base)

RECURSIVE BAddC(_, _, _)
BAddC(a, b, c) ==
  IF a = <<>> /\ b = <<>> THEN (IF c = 0 THEN <<>> ELSE <<c>>)
  ELSE LET x == (IF a = <<>> THEN 0 ELSE Head(a))
                + (IF b = <<>> THEN 0 ELSE Head(b)) + c
       IN  <<x % Base>> \o BAddC(IF a = <<>> THEN a ELSE Tail(a),
                                 IF b = <<>> THEN b ELSE Tail(b),
                                 x \div Base)

BAdd(a, b) == BAddC(a, b, 0)

RECURSIVE BMulSmallC(_, _, _)
BMulSmallC(a, k, c) ==
  IF a = <<>> THEN (IF c = 0 THEN <<>> ELSE <<c>>)
  ELSE LET x == Head(a) * k + c
       IN  <<x % Base>> \o BMulSmallC(Tail(a), k, x \div Base)

BMulSmall(a, k) == IF k = 0 THEN <<>> ELSE BMulSmallC(a, k, 0)

BShiftLimbs(a, n) == IF a = <<>> THEN a ELSE [i \in 1..n |-> 0] \o a

RECURSIVE BMul(_, _)
BMul(a, b) ==
  IF a = <<>> \/ b = <<>> THEN <<>>
  ELSE BAdd(BMulSmall(a, Head(b)), BShiftLimbs(BMul(a, Tail(b)), 1))

\* <<quotient, remainder>> of a by the small number k (0 < k < 2^16)
RECURSIVE BDivSmallRaw(_, _)
BDivSmallRaw(a, k) ==
  IF a = <<>> THEN <<a, 0>>
  ELSE LET hi  == BDivSmallRaw(Tail(a), k)
           cur == hi[2] * Base + Head(a)
       IN  <<(<<cur \div k>>) \o hi[1], cur % k>>

TrimQuotient(r) == <<BTrim(r[1]), r[2]>>

BDivSmall(a, k) == TrimQuotient(BDivSmallRaw(a, k))

BShl(a, n) == BShiftLimbs(BMulSmall(a, Pow2(n % LimbBits)), n \div LimbBits)

AnyNonZero(s) == \E i \in 1..Len(s) : s[i] # 0

ShiftedOut(d, low) == <<d[1], d[2] # 0 \/ AnyNonZero(low)>>

\* <<a \div 2^n, whether a nonzero bit was shifted out>>
BShr(a, n) ==
  ShiftedOut(BDivSmall(SubSeq(a, (n \div LimbBits) + 1, Len(a)),
                       Pow2(n % LimbBits)),
             SubSeq(a, 1, IF n \div LimbBits < Len(a) THEN n \div LimbBits
                                                     ELSE Len(a)))

RECURSIVE IntBitLen(_)
IntBitLen(n) == IF n = 0 THEN 0 ELSE 1 + IntBitLen(n \div 2)

BBitLen(a) ==
  IF a = <<>> THEN 0 ELSE LimbBits * (Len(a) - 1) + IntBitLen(a[Len(a)])

BIsOdd(a) == a # <<>> /\ a[1] % 2 = 1

RECURSIVE IntTrailingZeros(_)
IntTrailingZeros(n) == IF n % 2 = 1 THEN 0 ELSE 1 + IntTrailingZeros(n \div 2)

\* number of trailing zero bits of a # 0
RECURSIVE BTrailingZeros(_)
BTrailingZeros(a) ==
  IF Head(a) = 0 THEN LimbBits + BTrailingZeros(Tail(a))
  ELSE IntTrailingZeros(Head(a))

-----------------------------------------------------------------------------
(* IEEE-754 binary64, non-negative finite values                           *)

Precision == 53

FZero == <<(<<>>), 0>>

DropZeros(m, e, z) == <<BShr(m, z)[1], e + z>>

\* the canonical pair for the exact value m * 2^e (m of at most 53 bits)
FCanon(m, e) == IF m = <<>> THEN FZero ELSE DropZeros(m, e, BTrailingZeros(m))

\* q plus one when the bits dropped below q are more than half a unit, or
\* exactly half and q is odd (ties to even)
Nearest(q, half, below) ==
  IF half /\ (below \/ BIsOdd(q)) THEN BAdd(q, <<1>>) ELSE q

\* q1 is the exact value shifted down to 54 bits: its last bit is the half
NearestOf(q1, sticky) ==
  Nearest(BShr(q1[1], 1)[1], BIsOdd(q1[1]), q1[2] \/ sticky)

\* m * 2^e (plus a nonzero amount below the last bit of m when sticky)
\* rounded to the nearest double, ties to even; n is the bit length of m
FRoundN(m, e, sticky, n) ==
  FCanon(IF n <= Precision THEN m
         ELSE NearestOf(BShr(m, n - Precision - 1), sticky),
         IF n <= Precision THEN e ELSE e + (n - Precision))

FRound(m, e, sticky) == FRoundN(m, e, sticky, BBitLen(m))

F(n) == FCanon(BFromInt(n), 0)

\* x + y, both nonzero, with e the smaller exponent
FAddAt(x, y, e) ==
  FRound(BAdd(BShl(x[1], x[2] - e), BShl(y[1], y[2] - e)), e, FALSE)

FAdd(x, y) ==
  IF x[1] = <<>> THEN y
  ELSE IF y[1] = <<>> THEN x
  ELSE FAddAt(x, y, IF x[2] < y[2] THEN x[2] ELSE y[2])

FMul(x, y) == FRound(BMul(x[1], y[1]), x[2] + y[2], FALSE)

FDivRound(d, e) == FRound(d[1], e, d[2] # 0)

\* x / k with the mantissa of x shifted left by s bits first
FDivShifted(x, k, s) == FDivRound(BDivSmall(BShl(x[1], s), k), x[2] - s)

\* x / k for the integer-valued divisor k (0 < k < 2^16)
FDiv(x, k) ==
  IF x[1] = <<>> THEN FZero
  ELSE FDivShifted(x, k,
         IF Precision + 3 + IntBitLen(k) > BBitLen(x[1])
           THEN Precision + 3 + IntBitLen(k) - BBitLen(x[1]) ELSE 0)

\* Math.round: the integer nearest to x, ties towards +Infinity
MathRound(x) ==
  IF x[2] >= 0 THEN x
  ELSE FCanon(BShr(BAdd(x[1], BShl(<<1>>, (-x[2]) - 1)), -x[2])[1], 0)

\* the double a decimal literal n / p denotes (p a power of ten)
Dec(n, p) == FDiv(F(n), p)

Hundred == F(100)

round2(n) == FDiv(MathRound(FMul(n, Hundred)), 100)

-----
(* JSON values as the handler sees them.  undefined is the empty tuple, a  *)
(* number is a double <<m, e>>, a string value is a 1-tuple, an array is   *)
(* wrapped in a 1-tuple so that an empty array differs from undefined.     *)

Undefined == <<>>
Arr(s) == <<s>>
Elems(a) == a[1]
Str(s) == <<s>>
IsNumber(v) == Len(v) = 2

\* a ?? d
Nullish(a, d) == IF a = Undefined THEN d ELSE a

\* "sanitaer" stands for the enum value written with a-umlaut
Trade == {"maler", "elektro", "sanitaer", "boden", "dach"}

-----------------------------------------------------------------------------
(* Request bodies the model draws                                          *)

MaxRooms == 2
MaxMaterials == 2

Wohnzimmer == [name |-> "Wohnzimmer", width_m |-> F(4), length_m |-> F(5),
               height_m |-> Dec(26, 10)]
Flur == [name |-> "Flur", width_m |-> F(3), length_m |-> Dec(25, 10),
         height_m |-> Undefined]
RoomPool == {Wohnzimmer, Flur}

Laminat == [name |-> "Laminat", unitPrice |-> F(25), quantity |-> F(40),
            unit |-> "m2"]
Sockelleiste == [name |-> "Sockelleiste", unitPrice |-> Dec(1299, 100),
                 quantity |-> Dec(7125, 1000), unit |-> "m"]
MaterialPool == {Laminat, Sockelleiste}

SeqsUpTo(S, n) == UNION {[1..k -> S] : k \in 0..n}

RoomLists == {Undefined} \cup {Arr(s) : s \in SeqsUpTo(RoomPool, MaxRooms)}
MaterialLists ==
  {Undefined} \cup {Arr(s) : s \in SeqsUpTo(MaterialPool, MaxMaterials)}

Rates == {F(55), Dec(425, 10)}
\* <<marginPercentage, taxRatePercentage>>
Percentages == {<<Undefined, Undefined>>, <<F(10), F(7)>>}

ValidBodies ==
  {[trade |-> t,
    project |-> [rooms |-> r, materials |-> m],
    laborRatePerHour |-> l,
    marginPercentage |-> p[1],
    taxRatePercentage |-> p[2]] :
     t \in Trade, r \in RoomLists, m \in MaterialLists, l \in Rates,
     p \in Percentages}

ScenarioA ==
  [trade |-> "maler",
   project |-> [rooms |-> Arr(<<Wohnzimmer>>), materials |-> Undefined],
   laborRatePerHour |-> F(55),
   marginPercentage |-> Undefined,
   taxRatePercentage |-> Undefined]

ScenarioB ==
  [trade |-> "boden",
   project |-> [rooms |-> Undefined, materials |-> Arr(<<Laminat>>)],
   laborRatePerHour |-> F(55),
   marginPercentage |-> Undefined,
   taxRatePercentage |-> Undefined]

InvalidBodies ==
  {[ScenarioA EXCEPT !.trade = "garten"],
   [ScenarioA EXCEPT !.laborRatePerHour = Undefined],
   [ScenarioA EXCEPT !.project.rooms =
      Arr(<<[Wohnzimmer EXCEPT !.width_m = Str("4")]>>)],
   [ScenarioB EXCEPT !.project.materials =
      Arr(<<[Laminat EXCEPT !.unitPrice = Str("25")]>>)]}

Bodies == ValidBodies \cup InvalidBodies

\* bodies of valid shape with zeros: a room of no floor area, a room of
\* height 0, a labor rate 0, percentages 0
Leerraum == [name |-> "Leerraum", width_m |-> F(0), length_m |-> F(0),
             height_m |-> Undefined]
Podest == [name |-> "Podest", width_m |-> F(3), length_m |-> Dec(25, 10),
           height_m |-> F(0)]
EdgeRoomPool == {Leerraum, Podest, Wohnzimmer}
EdgeRates == {F(0), F(55)}
\* <<marginPercentage, taxRatePercentage>>
EdgePercentages ==
  {<<Undefined, Undefined>>, <<F(0), Undefined>>, <<Undefined, F(0)>>,
   <<F(0), F(0)>>}
EdgeBodies ==
  {[trade |-> t,
    project |-> [rooms |-> r, materials |-> m],
    laborRatePerHour |-> l,
    marginPercentage |-> p[1],
    taxRatePercentage |-> p[2]] :
     t \in Trade,
     r \in {Undefined} \cup {Arr(q) : q \in SeqsUpTo(EdgeRoomPool, MaxRooms)},
     m \in {Undefined, Arr(<<Laminat>>)},
     l \in EdgeRates,
     p \in EdgePercentages}

\* the bodies posted to both copies of the engine
CopyBodies ==
  {[trade |-> t,
    project |-> [rooms |-> r, materials |-> m],
    laborRatePerHour |-> l,
    marginPercentage |-> p[1],
    taxRatePercentage |-> p[2]] :
     t \in {"maler", "boden"},
     r \in RoomLists,
     m \in {Undefined, Arr(<<>>), Arr(<<Sockelleiste>>),
            Arr(<<Laminat, Sockelleiste>>)},
     l \in EdgeRates,
     p \in Percentages}
    \cup {[ScenarioA EXCEPT !.trade = "garten"]}

\* the bodies two clients post while the clock runs
ClientBodies == {ScenarioA, ScenarioB, [ScenarioA EXCEPT !.trade = "garten"]}

\* the clock readings are 0..MaxClock
MaxClock == 2

-----------------------------------------------------------------------------
(* OfferSchema: company, customer and project.title are required strings   *)
(* that no calculation reads; the model leaves them out of the body.       *)

IsOptionalNumber(v) == v = Undefined \/ IsNumber(v)

RoomSchema(r) ==
  IsNumber(r.width_m) /\ IsNumber(r.length_m) /\ IsOptionalNumber(r.height_m)

MaterialSchema(m) == IsNumber(m.unitPrice) /\ IsNumber(m.quantity)

\* variant: trade taken as any string
OfferSchemaAnyTrade(body) ==
  /\ \/ body.project.rooms = Undefined
     \/ \A i \in 1..Len(Elems(body.project.rooms)) :
          RoomSchema(Elems(body.project.rooms)[i])
  /\ \/ body.project.materials = Undefined
     \/ \A i \in 1..Len(Elems(body.project.materials)) :
          MaterialSchema(Elems(body.project.materials)[i])
  /\ IsNumber(body.laborRatePerHour)
  /\ IsOptionalNumber(body.marginPercentage)
  /\ IsOptionalNumber(body.taxRatePercentage)

OfferSchema(body) ==
  /\ body.trade \in Trade
  /\ \/ body.project.rooms = Undefined
     \/ \A i \in 1..Len(Elems(body.project.rooms)) :
          RoomSchema(Elems(body.project.rooms)[i])
  /\ \/ body.project.materials = Undefined
     \/ \A i \in 1..Len(Elems(body.project.materials)) :
          MaterialSchema(Elems(body.project.materials)[i])
  /\ IsNumber(body.laborRatePerHour)
  /\ IsOptionalNumber(body.marginPercentage)
  /\ IsOptionalNumber(body.taxRatePercentage)

-----------------------------------------------------------------------------
(* The state: the server, its generated/ directory and two clients         *)

VARIABLES
  pc,        \* "idle", "pending" (request sent), "done" (response sent)
  req,       \* body of the request in flight
  resp,      \* the response: [status, body]
  now,       \* Date.now()
  peer,      \* a second client: [pc, req, resp]
  generated, \* the files of the generated/ directory: [path, offer]
  users,     \* data/users.json of the backend of index.mjs
  settings,  \* data/settings.json, Undefined while the file is not there
  customers, \* data/customers.json
  projects,  \* data/projects.json
  sessions,  \* the session store: for each client [user, csrf]
  FAILS,     \* the Map FAILS: key -> [count, until]
  inflight,  \* the POST /api/users handlers waiting for bcrypt.hash
  streak,    \* history: key -> the logins answered 401 since its last 200
  uploads    \* public/logo.png and the files of public/uploads/projects

\* the state of the backend of index.mjs
backendVars ==
  <<users, settings, customers, projects, sessions, FAILS, inflight, streak,
    uploads>>

vars == <<pc, req, resp, now, peer, generated, backendVars>>

-----------------------------------------------------------------------------
(* generateOffer                                                           *)

\* variant: the preparation hours at 50 square metres per hour
prepHoursFifty(wall, ceiling) == FDiv(FAdd(wall, ceiling), 50)

\* variant: the default height of a room the editor adds (2.5)
hEditorDefault(room) == Nullish(room.height_m, Dec(25, 10))

\* const h = room.height_m ?? 2.6
h(room) == Nullish(room.height_m, Dec(26, 10))
wallArea(room) == FMul(FMul(F(2), FAdd(room.width_m, room.length_m)), h(room))
ceilingArea(room) == FMul(room.width_m, room.length_m)
wallHours(wall) == FDiv(wall, 20)
ceilingHours(ceiling) == FDiv(ceiling, 25)
prepHours(wall, ceiling) == FDiv(FAdd(wall, ceiling), 60)
hours(wall, ceiling) ==
  FAdd(FAdd(wallHours(wall), ceilingHours(ceiling)), prepHours(wall, ceiling))
paintLiters(wall, ceiling) == FDiv(FAdd(wall, ceiling), 8)
paintPrice == F(6)

laborItem(room, rate, wall, ceiling, hrs) ==
  [description |-> [text |-> "Malerarbeiten", name |-> room.name,
                    amount |-> round2(FAdd(wall, ceiling))],
   quantity |-> round2(hrs),
   unit |-> "Std",
   unitPrice |-> rate,
   total |-> round2(FMul(hrs, rate))]

paintItem(liters) ==
  [description |-> [text |-> "Material: Qualitaetsfarbe", name |-> "",
                    amount |-> round2(liters)],
   quantity |-> round2(liters),
   unit |-> "l",
   unitPrice |-> paintPrice,
   total |-> round2(FMul(liters, paintPrice))]

\* variant: the labor item pushed only when the rate is truthy
roomPassSkipFree(room, rate, wall, ceiling) ==
  IF rate = FZero
    THEN <<paintItem(paintLiters(wall, ceiling))>>
    ELSE <<laborItem(room, rate, wall, ceiling, hours(wall, ceiling)),
           paintItem(paintLiters(wall, ceiling))>>

\* variant: the paint item pushed before the labor item
roomPassPaintFirst(room, rate, wall, ceiling) ==
  <<paintItem(paintLiters(wall, ceiling)),
    laborItem(room, rate, wall, ceiling, hours(wall, ceiling))>>

\* the two items one pass of the loop over the rooms pushes
roomPass(room, rate, wall, ceiling) ==
  <<laborItem(room, rate, wall, ceiling, hours(wall, ceiling)),
    paintItem(paintLiters(wall, ceiling))>>

RECURSIVE roomItems(_, _)
roomItems(rooms, rate) ==
  IF rooms = <<>> THEN <<>>
  ELSE roomPass(Head(rooms), rate, wallArea(Head(rooms)),
                ceilingArea(Head(rooms)))
         \o roomItems(Tail(rooms), rate)

\* variant: the quantity rounded like the quantity of a labor or paint item
materialItemRounded(m) ==
  [description |-> [text |-> "Material", name |-> m.name, amount |-> Undefined],
   quantity |-> round2(m.quantity),
   unit |-> m.unit,
   unitPrice |-> m.unitPrice,
   total |-> round2(FMul(m.unitPrice, m.quantity))]

materialItem(m) ==
  [description |-> [text |-> "Material", name |-> m.name, amount |-> Undefined],
   quantity |-> m.quantity,
   unit |-> m.unit,
   unitPrice |-> m.unitPrice,
   total |-> round2(FMul(m.unitPrice, m.quantity))]

materialItems(materials) ==
  [i \in 1..Len(materials) |-> materialItem(materials[i])]

\* variant: the trade is not looked at
hasRoomsAnyTrade(input) ==
  /\ input.project.rooms # Undefined
  /\ Len(Elems(input.project.rooms)) # 0

\* input.trade === "maler" && input.project.rooms?.length
hasRooms(input) ==
  /\ input.trade = "maler"
  /\ input.project.rooms # Undefined
  /\ Len(Elems(input.project.rooms)) # 0

\* the items of the responses that are sent and not yet read
unreadItems ==
  (IF pc = "done" /\ resp.status = 200 THEN resp.body.items ELSE <<>>)
  \o (IF peer.pc = "done" /\ peer.resp.status = 200
        THEN peer.resp.body.items
        ELSE <<>>)

\* variant: items is an array of the module, not emptied between invocations
itemsKept(input) ==
  unreadItems
  \o (IF input.trade = "maler" /\ input.project.rooms # Undefined
          /\ Len(Elems(input.project.rooms)) # 0
        THEN roomItems(Elems(input.project.rooms), input.laborRatePerHour)
        ELSE <<>>)
  \o (IF input.project.materials # Undefined
        THEN materialItems(Elems(input.project.materials))
        ELSE <<>>)

\* variant: the material loop entered without the test that materials is there
materialsGivenAlways(input) == TRUE

\* if (input.project.materials)
materialsGiven(input) == input.project.materials # Undefined

\* for (const x of v) raises a TypeError when v is undefined
NotIterable(v) == v = Undefined

\* generateOffer raises instead of returning: one of its two loops is entered
\* over a list that is absent
throws(input) ==
  \/ hasRooms(input) /\ NotIterable(input.project.rooms)
  \/ materialsGiven(input) /\ NotIterable(input.project.materials)

items(input) ==
  (IF hasRooms(input)
     THEN roomItems(Elems(input.project.rooms), input.laborRatePerHour)
     ELSE <<>>)
  \o (IF materialsGiven(input)
        THEN materialItems(Elems(input.project.materials))
        ELSE <<>>)

\* its.reduce((s, it) => s + it.total, s)
RECURSIVE reduce(_, _)
reduce(its, s) ==
  IF its = <<>> THEN s ELSE reduce(Tail(its), FAdd(s, Head(its).total))

\* variant: the default taken with || (input.marginPercentage || 15)
marginPctFalsy(input) ==
  IF input.marginPercentage = Undefined \/ input.marginPercentage = FZero
    THEN F(15)
    ELSE input.marginPercentage

\* variant: the default margin of the items-based engine (10)
marginPctTen(input) == Nullish(input.marginPercentage, F(10))

\* variant: the margin left unrounded
marginUnrounded(sub, pct) == FDiv(FMul(sub, pct), 100)

\* variant: the percentage added to the subtotal instead of multiplied
marginAdded(sub, pct) == round2(FDiv(FAdd(sub, pct), 100))

\* variant: the sum left unrounded
totalBeforeTaxUnrounded(sub, mar) == FAdd(sub, mar)

subtotal(its) == round2(reduce(its, FZero))
marginPct(input) == Nullish(input.marginPercentage, F(15))
margin(sub, pct) == round2(FDiv(FMul(sub, pct), 100))
totalBeforeTax(sub, mar) == round2(FAdd(sub, mar))
taxRate(input) == Nullish(input.taxRatePercentage, F(19))
tax(tbt, rate) == round2(FDiv(FMul(tbt, rate), 100))
total(tbt, tx) == round2(FAdd(tbt, tx))

\* variant: the id taken from a clock of half the resolution
OfferIdCoarse(input, clock, its, sub, mar, tbt, tx) ==
  [id |-> <<"OF-", clock \div 2>>,
   createdAt |-> clock,
   input |-> input,
   items |-> its,
   subtotal |-> sub,
   margin |-> mar,
   totalBeforeTax |-> tbt,
   tax |-> tx,
   total |-> round2(FAdd(tbt, tx)),
   currency |-> "EUR"]

\* variant: the defaults written into the input (input.marginPercentage ??= 15)
OfferDefaultsWritten(input, clock, its, sub, mar, tbt, tx) ==
  [id |-> <<"OF-", clock>>,
   createdAt |-> clock,
   input |-> [input EXCEPT !.marginPercentage = Nullish(@, F(15)),
                           !.taxRatePercentage = Nullish(@, F(19))],
   items |-> its,
   subtotal |-> sub,
   margin |-> mar,
   totalBeforeTax |-> tbt,
   tax |-> tx,
   total |-> round2(FAdd(tbt, tx)),
   currency |-> "EUR"]

\* the returned object, given the values of the function's constants; clock
\* is the reading both Date.now() and new Date() take
Offer(input, clock, its, sub, mar, tbt, tx) ==
  [id |-> <<"OF-", clock>>,
   createdAt |-> clock,
   input |-> input,
   items |-> its,
   subtotal |-> sub,
   margin |-> mar,
   totalBeforeTax |-> tbt,
   tax |-> tx,
   total |-> total(tbt, tx),
   currency |-> "EUR"]

\* variant: the tax taken on the bare subtotal
fromNetTaxOnSubtotal(input, clock, its, sub, mar, tbt) ==
  Offer(input, clock, its, sub, mar, tbt, tax(sub, taxRate(input)))

fromNet(input, clock, its, sub, mar, tbt) ==
  Offer(input, clock, its, sub, mar, tbt, tax(tbt, taxRate(input)))

fromMargin(input, clock, its, sub, mar) ==
  fromNet(input, clock, its, sub, mar, totalBeforeTax(sub, mar))

fromSubtotal(input, clock, its, sub) ==
  fromMargin(input, clock, its, sub, margin(sub, marginPct(input)))

fromItems(input, clock, its) == fromSubtotal(input, clock, its, subtotal(its))

generateOffer(input, clock) == fromItems(input, clock, items(input))

-----------------------------------------------------------------------------
(* generateOfferFromInput of services/offerEngine, the copy of the engine  *)
(* that the router of routes/offers calls.  Its names carry the prefix     *)
(* offerEngine_.                                                           *)

offerEngine_round2(n) == FDiv(MathRound(FMul(n, F(100))), 100)

offerEngine_h(room) == Nullish(room.height_m, Dec(26, 10))
offerEngine_wallArea(room) ==
  FMul(FMul(F(2), FAdd(room.width_m, room.length_m)), offerEngine_h(room))
offerEngine_ceilingArea(room) == FMul(room.width_m, room.length_m)
offerEngine_hours(wall, ceiling) ==
  FAdd(FAdd(FDiv(wall, 20), FDiv(ceiling, 25)), FDiv(FAdd(wall, ceiling), 60))
offerEngine_paintLiters(wall, ceiling) == FDiv(FAdd(wall, ceiling), 8)

offerEngine_laborItem(room, rate, wall, ceiling, hrs) ==
  [description |-> [text |-> "Malerarbeiten", name |-> room.name,
                    amount |-> offerEngine_round2(FAdd(wall, ceiling))],
   quantity |-> offerEngine_round2(hrs),
   unit |-> "Std",
   unitPrice |-> rate,
   total |-> offerEngine_round2(FMul(hrs, rate))]

offerEngine_paintItem(liters) ==
  [description |-> [text |-> "Material: Qualitaetsfarbe", name |-> "",
                    amount |-> offerEngine_round2(liters)],
   quantity |-> offerEngine_round2(liters),
   unit |-> "l",
   unitPrice |-> F(6),
   total |-> offerEngine_round2(FMul(liters, F(6)))]

offerEngine_roomPass(room, rate, wall, ceiling) ==
  <<offerEngine_laborItem(room, rate, wall, ceiling,
                          offerEngine_hours(wall, ceiling)),
    offerEngine_paintItem(offerEngine_paintLiters(wall, ceiling))>>

RECURSIVE offerEngine_roomItems(_, _)
offerEngine_roomItems(rooms, rate) ==
  IF rooms = <<>> THEN <<>>
  ELSE offerEngine_roomPass(Head(rooms), rate, offerEngine_wallArea(Head(rooms)),
                            offerEngine_ceilingArea(Head(rooms)))
         \o offerEngine_roomItems(Tail(rooms), rate)

offerEngine_materialItem(m) ==
  [description |-> [text |-> "Material", name |-> m.name, amount |-> Undefined],
   quantity |-> m.quantity,
   unit |-> m.unit,
   unitPrice |-> m.unitPrice,
   total |-> offerEngine_round2(FMul(m.unitPrice, m.quantity))]

\* input.trade === 'maler' && input.project.rooms && rooms.length > 0
offerEngine_hasRooms(input) ==
  /\ input.trade = "maler"
  /\ input.project.rooms # Undefined
  /\ Len(Elems(input.project.rooms)) > 0

offerEngine_items(input) ==
  (IF offerEngine_hasRooms(input)
     THEN offerEngine_roomItems(Elems(input.project.rooms),
                                input.laborRatePerHour)
     ELSE <<>>)
  \o (IF input.project.materials # Undefined
        THEN [i \in 1..Len(Elems(input.project.materials)) |->
                offerEngine_materialItem(Elems(input.project.materials)[i])]
        ELSE <<>>)

RECURSIVE offerEngine_reduce(_, _)
offerEngine_reduce(its, s) ==
  IF its = <<>> THEN s
  ELSE offerEngine_reduce(Tail(its), FAdd(s, Head(its).total))

offerEngine_subtotal(its) == offerEngine_round2(offerEngine_reduce(its, FZero))

\* variant: the default margin of the items-based engine (10)
offerEngine_marginPctTen(input) == Nullish(input.marginPercentage, F(10))

offerEngine_marginPct(input) == Nullish(input.marginPercentage, F(15))
offerEngine_margin(sub, pct) == offerEngine_round2(FDiv(FMul(sub, pct), 100))
offerEngine_totalBeforeTax(sub, mar) == offerEngine_round2(FAdd(sub, mar))
offerEngine_taxRate(input) == Nullish(input.taxRatePercentage, F(19))
offerEngine_tax(tbt, rate) == offerEngine_round2(FDiv(FMul(tbt, rate), 100))

offerEngine_Offer(input, clock, its, sub, mar, tbt, tx) ==
  [id |-> <<"OF-", clock>>,
   createdAt |-> clock,
   input |-> input,
   items |-> its,
   subtotal |-> sub,
   margin |-> mar,
   totalBeforeTax |-> tbt,
   tax |-> tx,
   total |-> offerEngine_round2(FAdd(tbt, tx)),
   currency |-> "EUR"]

offerEngine_fromNet(input, clock, its, sub, mar, tbt) ==
  offerEngine_Offer(input, clock, its, sub, mar, tbt,
                    offerEngine_tax(tbt, offerEngine_taxRate(input)))

offerEngine_fromMargin(input, clock, its, sub, mar) ==
  offerEngine_fromNet(input, clock, its, sub, mar,
                      offerEngine_totalBeforeTax(sub, mar))

offerEngine_fromSubtotal(input, clock, its, sub) ==
  offerEngine_fromMargin(input, clock, its, sub,
                         offerEngine_margin(sub, offerEngine_marginPct(input)))

offerEngine_fromItems(input, clock, its) ==
  offerEngine_fromSubtotal(input, clock, its, offerEngine_subtotal(its))

generateOfferFromInput(input, clock) ==
  offerEngine_fromItems(input, clock, offerEngine_items(input))

-----------------------------------------------------------------------------
(* The backend of index.mjs: sessions, users.json, settings.json           *)

\* the browsers, each with its own session cookie
Clients == {"c1", "c2"}

\* the values crypto.randomBytes(24).toString("hex") can return
Tokens == {Str("t1"), Str("t2")}

\* the values uid() can return
Ids == {"u1", "u2"}

\* req.ip: the clients share one address
ip == "10.0.0.1"

\* bcrypt.hashSync(password, 10) and bcrypt.compareSync(password, passhash)
hashSync(password) == <<"bcrypt", password>>
compareSync(password, passhash) == passhash = hashSync(password)

\* users.json after ensureAdmin has run on an empty data directory
ensureAdmin ==
  <<[id |-> "u0", username |-> Str("admin"),
     passhash |-> hashSync(Str("admin")), role |-> "admin", active |-> TRUE]>>

\* a session that no handler has written to
NoSession == [user |-> Undefined, csrf |-> Undefined]

\* the function f with key k set to v, and with key k removed
Put(f, k, v) == [x \in DOMAIN f \cup {k} |-> IF x = k THEN v ELSE f[x]]
Remove(f, k) == [x \in DOMAIN f \ {k} |-> f[x]]

\* the bodies posted to /api/settings
SettingsBodies ==
  [taxRate : {Undefined, F(7)}, marginRate : {Undefined, F(20)}]

\* the pages the guard of index.mjs names
PROTECTED_HTML ==
  {"/dashboard.html", "/app.html", "/assistant.html", "/pdfs.html",
   "/customers.html", "/projects.html", "/settings.html", "/users.html"}

\* the files of PUBLIC_DIR: the pages of the application and its login page
PUBLIC_DIR == PROTECTED_HTML \cup {"/login.html"}

\* the data directory and generated/ hold at most MaxRecords customers,
\* projects and files together
MaxRecords == 1

\* at most MaxInflight handlers wait for bcrypt.hash at a time
MaxInflight == 2

\* the clock of the backend runs for MaxHalfMinutes half minutes
MaxHalfMinutes == 5

\* the items posted to /api/offers/generate of index.mjs
MaxItems == 2
ItemPool ==
  {[qty |-> F(3), unitPrice |-> Dec(1999, 100)],
   [qty |-> Dec(7125, 1000), unitPrice |-> Dec(1299, 100)],
   [qty |-> Undefined, unitPrice |-> F(100)]}
ItemInputs ==
  {[items |-> Arr(list)] : list \in SeqsUpTo(ItemPool, MaxItems)}
    \cup {[items |-> Undefined]}

backendInit ==
  /\ users = ensureAdmin
  /\ settings = Undefined
  /\ customers = <<>>
  /\ projects = <<>>
  /\ sessions = [c \in Clients |-> NoSession]
  /\ FAILS = <<>>
  /\ inflight = {}
  /\ streak = <<>>
  /\ uploads = [logo |-> Undefined, files |-> {}]

-----------------------------------------------------------------------------
(* The handlers and the clients                                            *)

NoResponse == [status |-> 0, body |-> Undefined]
Idle == [pc |-> "idle", req |-> Undefined, resp |-> NoResponse]

Init ==
  /\ pc = "idle"
  /\ req = Undefined
  /\ resp = NoResponse
  /\ now = 0
  /\ peer = Idle
  /\ generated = {}
  /\ backendInit

\* try { res.json(generateOffer(OfferSchema.parse(body))) }
\* catch (e) { res.status(400).json({ error: e.message }) }
Respond(body, clock) ==
  IF ~OfferSchema(body)
    THEN [status |-> 400, body |-> [error |-> "ZodError"]]
    ELSE IF throws(body)
      THEN [status |-> 400, body |-> [error |-> "TypeError"]]
      ELSE [status |-> 200, body |-> generateOffer(body, clock)]

\* a client posts body to /api/offers/generate
Submit(body) ==
  /\ pc = "idle"
  /\ pc' = "pending"
  /\ req' = body
  /\ UNCHANGED <<resp, now, peer, generated, backendVars>>

\* app.post("/api/offers/generate", ...)
PostOffersGenerate ==
  /\ pc = "pending"
  /\ pc' = "done"
  /\ resp' = Respond(req, now)
  /\ UNCHANGED <<req, now, peer, generated, backendVars>>

\* the client has read the response
Receive ==
  /\ pc = "done"
  /\ pc' = "idle"
  /\ req' = Undefined
  /\ resp' = NoResponse
  /\ UNCHANGED <<now, peer, generated, backendVars>>

Next ==
  \/ \E body \in Bodies : Submit(body)
  \/ PostOffersGenerate
  \/ Receive

Spec == Init /\ [][Next]_vars

NextEdge ==
  \/ \E body \in EdgeBodies : Submit(body)
  \/ PostOffersGenerate
  \/ Receive

\* one client posting the bodies with zeros
SpecEdge == Init /\ [][NextEdge]_vars

\* a millisecond passes
Tick ==
  /\ now < MaxClock
  /\ now' = now + 1
  /\ UNCHANGED <<pc, req, resp, peer, generated, backendVars>>

\* the second client posts body to /api/offers/generate
PeerSubmit(body) ==
  /\ peer.pc = "idle"
  /\ peer' = [pc |-> "pending", req |-> body, resp |-> NoResponse]
  /\ UNCHANGED <<pc, req, resp, now, generated, backendVars>>

\* variant: the parsed input kept in a variable of the module, which the
\* request of the first client overwrites while it is in flight
PeerPostOffersGenerateSharedInput ==
  /\ peer.pc = "pending"
  /\ peer' = [pc |-> "done", req |-> peer.req,
              resp |-> Respond(IF pc = "pending" THEN req ELSE peer.req, now)]
  /\ UNCHANGED <<pc, req, resp, now, generated, backendVars>>

\* app.post("/api/offers/generate", ...) run for the second client's request
PeerPostOffersGenerate ==
  /\ peer.pc = "pending"
  /\ peer' = [pc |-> "done", req |-> peer.req, resp |-> Respond(peer.req, now)]
  /\ UNCHANGED <<pc, req, resp, now, generated, backendVars>>

PeerReceive ==
  /\ peer.pc = "done"
  /\ peer' = Idle
  /\ UNCHANGED <<pc, req, resp, now, generated, backendVars>>

\* path.join(GENERATED, `${offer.id}.pdf`)
filePath(offer) == <<"generated/", offer.id, ".pdf">>

\* fs.createWriteStream(filePath) truncates a file that is there; the document
\* written is modelled by the Offer it renders
exportOfferToPDF(files, offer) ==
  {f \in files : f.path # filePath(offer)}
    \cup {[path |-> filePath(offer), offer |-> offer]}

\* exportPDF of the editor, then app.post("/api/offers/export-pdf", ...)
PostOffersExportPdf ==
  /\ pc = "done"
  /\ resp.status = 200
  /\ generated' = exportOfferToPDF(generated, resp.body)
  /\ UNCHANGED <<pc, req, resp, now, peer, backendVars>>

PeerPostOffersExportPdf ==
  /\ peer.pc = "done"
  /\ peer.resp.status = 200
  /\ generated' = exportOfferToPDF(generated, peer.resp.body)
  /\ UNCHANGED <<pc, req, resp, now, peer, backendVars>>

\* a client posts body to the server of index.ts and, as the second client,
\* to the server of the router
SubmitBoth(body) ==
  /\ pc = "idle"
  /\ peer.pc = "idle"
  /\ pc' = "pending"
  /\ req' = body
  /\ peer' = [pc |-> "pending", req |-> body, resp |-> NoResponse]
  /\ UNCHANGED <<resp, now, generated, backendVars>>

\* try { res.json(generateOfferFromInput(OfferSchema.parse(req.body))) }
\* catch (e) { res.status(400).json({ error: e.message }) }
RouterRespond(body, clock) ==
  IF OfferSchema(body)
    THEN [status |-> 200, body |-> generateOfferFromInput(body, clock)]
    ELSE [status |-> 400, body |-> [error |-> "ZodError"]]

\* router.post('/generate', ...) run for the second client's request
RouterPostGenerate ==
  /\ peer.pc = "pending"
  /\ peer' = [pc |-> "done", req |-> peer.req,
              resp |-> RouterRespond(peer.req, now)]
  /\ UNCHANGED <<pc, req, resp, now, generated, backendVars>>

NextCopies ==
  \/ \E body \in CopyBodies : SubmitBoth(body)
  \/ PostOffersGenerate
  \/ RouterPostGenerate
  \/ Receive
  \/ PeerReceive

\* one body sent to the two copies of the engine
SpecCopies == Init /\ [][NextCopies]_vars

NextClients ==
  \/ \E body \in ClientBodies : Submit(body)
  \/ PostOffersGenerate
  \/ Receive
  \/ PostOffersExportPdf
  \/ \E body \in ClientBodies : PeerSubmit(body)
  \/ PeerPostOffersGenerate
  \/ PeerReceive
  \/ PeerPostOffersExportPdf
  \/ Tick

\* two clients, the export and a running clock
SpecClients == Init /\ [][NextClients]_vars

-----------------------------------------------------------------------------
(* The backend of index.mjs: a request is [route, client, token, body],    *)
(* token being the x-csrf-token header                                     *)

\* a client sends a request to the backend
Send(request) ==
  /\ pc = "idle"
  /\ pc' = "pending"
  /\ req' = request
  /\ UNCHANGED <<resp, now, peer, generated, backendVars>>

\* if (!req.session.csrf) req.session.csrf = genCsrf(), token being what
\* genCsrf returns
attachCsrf(session, token) ==
  IF session.csrf = Undefined THEN [session EXCEPT !.csrf = token] ELSE session

\* variant: any x-csrf-token passes
requireCsrfAnyToken(request, session) == request.token # Undefined

\* requireCsrf calls next()
requireCsrf(request, session) ==
  request.token # Undefined /\ request.token = session.csrf

\* the first element of list with that username, Undefined when none has it
find(list, username) ==
  IF \E i \in 1..Len(list) : list[i].username = username
    THEN list[CHOOSE i \in 1..Len(list) :
                /\ list[i].username = username
                /\ \A j \in 1..(i - 1) : list[j].username # username]
    ELSE Undefined

\* `${ip}|${username}`
key(address, username) == <<address, username>>

\* variant: the lock still holds at the millisecond it runs out
isLockedThrough(fails, k, clock) ==
  k \in DOMAIN fails /\ clock <= fails[k].until

\* what isLocked returns
isLocked(fails, k, clock) == k \in DOMAIN fails /\ clock < fails[k].until

\* the Map after isLocked: a record that has run out is deleted
isLockedDeletes(fails, k, clock) ==
  IF k \in DOMAIN fails /\ ~(clock < fails[k].until)
    THEN Remove(fails, k)
    ELSE fails

\* Math.min(60 * count, 10 * 60)
lockSec(count) == IF 60 * count < 10 * 60 THEN 60 * count ELSE 10 * 60

\* FAILS.get(key) || { count: 0, until: 0 }
prev(fails, k) ==
  IF k \in DOMAIN fails THEN fails[k] ELSE [count |-> 0, until |-> 0]

\* the Map after registerFail
registerFail(fails, k, clock) ==
  Put(fails, k, [count |-> prev(fails, k).count + 1,
                 until |-> clock + lockSec(prev(fails, k).count + 1) * 1000])

\* the Map after clearFails
clearFails(fails, k) == Remove(fails, k)

\* variant: the active flag of the user is not looked at
credentialsOkInactive(body, list) ==
  /\ find(list, body.username) # Undefined
  /\ compareSync(body.password, find(list, body.username).passhash)

\* u && u.active && bcrypt.compareSync(String(password), u.passhash)
credentialsOk(body, list) ==
  /\ find(list, body.username) # Undefined
  /\ find(list, body.username).active
  /\ compareSync(body.password, find(list, body.username).passhash)

\* { id: u.id, username: u.username, role: u.role }
sessionUser(u) == [id |-> u.id, username |-> u.username, role |-> u.role]

\* the logins of key k answered 401 since its last 200
Failures(k) == IF k \in DOMAIN streak THEN streak[k] ELSE 0

\* the handler of POST /api/auth/login, session being req.session after
\* attachCsrf and k the key of the request
login(session, k) ==
  IF req.body.username = Undefined \/ req.body.password = Undefined
    THEN /\ resp' = [status |-> 400,
                     body |-> [error |-> "username/password erforderlich"]]
         /\ sessions' = [sessions EXCEPT ![req.client] = session]
         /\ FAILS' = FAILS
         /\ streak' = streak
    ELSE IF isLocked(FAILS, k, now)
      THEN /\ resp' = [status |-> 429, body |-> [error |-> "gesperrt"]]
           /\ sessions' = [sessions EXCEPT ![req.client] = session]
           /\ FAILS' = FAILS
           /\ streak' = streak
      ELSE IF ~credentialsOk(req.body, users)
        THEN /\ resp' = [status |-> 401, body |-> [error |-> "Unauthorized"]]
             /\ sessions' = [sessions EXCEPT ![req.client] = session]
             /\ FAILS' = registerFail(isLockedDeletes(FAILS, k, now), k, now)
             /\ streak' = Put(streak, k, Failures(k) + 1)
        ELSE /\ resp' = [status |-> 200,
                         body |-> [ok |-> TRUE,
                                   user |-> sessionUser(
                                              find(users, req.body.username)),
                                   csrf |-> session.csrf]]
             /\ sessions' = [sessions EXCEPT ![req.client] =
                               [session EXCEPT !.user = sessionUser(
                                  find(users, req.body.username))]]
             /\ FAILS' = clearFails(isLockedDeletes(FAILS, k, now), k)
             /\ streak' = Remove(streak, k)

\* app.post("/api/auth/login", ...); authLimiter in front of it, which lets
\* 30 logins of an address pass in 15 minutes, is left out
PostAuthLogin ==
  /\ pc = "pending"
  /\ req.route = "POST /api/auth/login"
  /\ pc' = "done"
  /\ \E token \in Tokens :
       login(attachCsrf(sessions[req.client], token),
             key(ip, req.body.username))
  /\ UNCHANGED <<req, now, peer, generated,
                 users, settings, customers, projects, inflight, uploads>>

\* taxRate: Number(s.taxRate ?? 19), marginRate: Number(s.marginRate ?? 10);
\* the language, the theme and the company's address are left out
merged(body) ==
  [taxRate |-> Nullish(body.taxRate, F(19)),
   marginRate |-> Nullish(body.marginRate, F(10))]

\* the handler of POST /api/settings behind requireCsrf
saveSettings(session) ==
  IF ~requireCsrf(req, session)
    THEN /\ resp' = [status |-> 403, body |-> [error |-> "CSRF invalid"]]
         /\ settings' = settings
    ELSE IF session.user = Undefined
      THEN /\ resp' = [status |-> 401, body |-> [error |-> "Unauthorized"]]
           /\ settings' = settings
      ELSE /\ resp' = [status |-> 200, body |-> [ok |-> TRUE]]
           /\ settings' = merged(req.body)

\* app.post("/api/settings", requireCsrf, ...)
PostSettings ==
  /\ pc = "pending"
  /\ req.route = "POST /api/settings"
  /\ pc' = "done"
  /\ \E token \in Tokens :
       /\ sessions' = [sessions EXCEPT ![req.client] =
                         attachCsrf(sessions[req.client], token)]
       /\ saveSettings(attachCsrf(sessions[req.client], token))
  /\ UNCHANGED <<req, now, peer, generated,
                 users, customers, projects, FAILS, inflight, streak, uploads>>

\* offerschemaParse does not throw: input && Array.isArray(input.items)
offerschemaParse(input) == input # Undefined /\ Len(input.items) = 1

\* Number(v || 0)
NumberOrZero(v) == IF v = Undefined THEN FZero ELSE v

\* for (const it of input.items)
\*   subtotal += Number(it.qty || 0) * Number(it.unitPrice || 0)
RECURSIVE mjs_sum(_, _)
mjs_sum(list, acc) ==
  IF list = <<>>
    THEN acc
    ELSE mjs_sum(Tail(list),
                 FAdd(acc, FMul(NumberOrZero(Head(list).qty),
                                NumberOrZero(Head(list).unitPrice))))

mjs_subtotal(input) == mjs_sum(Elems(input.items), FZero)

\* variant: the margin taken from the marginRate of settings.json
mjs_marginFromSettings(subtotal_) ==
  FDiv(FMul(subtotal_, IF settings = Undefined THEN F(10)
                                               ELSE settings.marginRate), 100)

\* subtotal * 0.1
mjs_margin(subtotal_) == FMul(subtotal_, Dec(1, 10))

\* totalBeforeTax * 0.19
mjs_tax(totalBeforeTax_) == FMul(totalBeforeTax_, Dec(19, 100))

mjs_fromNet(input, subtotal_, margin_, totalBeforeTax_, tax_) ==
  [items |-> input.items, subtotal |-> subtotal_, margin |-> margin_,
   totalBeforeTax |-> totalBeforeTax_, tax |-> tax_,
   total |-> FAdd(totalBeforeTax_, tax_)]

mjs_fromMargin(input, subtotal_, margin_, totalBeforeTax_) ==
  mjs_fromNet(input, subtotal_, margin_, totalBeforeTax_,
              mjs_tax(totalBeforeTax_))

mjs_fromSubtotal(input, subtotal_, margin_) ==
  mjs_fromMargin(input, subtotal_, margin_, FAdd(subtotal_, margin_))

\* generateOffer of index.mjs
mjs_generateOffer(input) ==
  mjs_fromSubtotal(input, mjs_subtotal(input), mjs_margin(mjs_subtotal(input)))

\* try { res.json(generateOffer(offerschemaParse(req.body))) }
\* catch (e) { res.status(400).json({ error: e.message }) }
mjs_Respond(body) ==
  IF offerschemaParse(body)
    THEN [status |-> 200, body |-> mjs_generateOffer(body)]
    ELSE [status |-> 400, body |-> [error |-> "items[] fehlt"]]

\* app.post("/api/offers/generate", ...) of index.mjs
mjs_PostOffersGenerate ==
  /\ pc = "pending"
  /\ req.route = "POST /api/offers/generate"
  /\ pc' = "done"
  /\ resp' = mjs_Respond(req.body)
  /\ \E token \in Tokens :
       sessions' = [sessions EXCEPT ![req.client] =
                      attachCsrf(sessions[req.client], token)]
  /\ UNCHANGED <<req, now, peer, generated,
                 users, settings, customers, projects, FAILS, inflight,
                 streak, uploads>>

\* app.post("/api/auth/logout", ...): req.session.destroy
PostAuthLogout ==
  /\ pc = "pending"
  /\ req.route = "POST /api/auth/logout"
  /\ pc' = "done"
  /\ resp' = [status |-> 200, body |-> [ok |-> TRUE]]
  /\ sessions' = [sessions EXCEPT ![req.client] = NoSession]
  /\ UNCHANGED <<req, now, peer, generated, users, settings, customers,
                 projects, FAILS, inflight, streak, uploads>>

\* the guard in front of the routes: a protected page asked for without a
\* session user is redirected, every other request goes on to the routes,
\* none of which answers the path of a page
guard(path, session) ==
  IF path \in PROTECTED_HTML /\ session.user = Undefined
    THEN [status |-> 302, body |-> [location |-> "/login.html"]]
    ELSE [status |-> 404, body |-> Undefined]

\* a GET of a path: express.static(PUBLIC_DIR) answers when the file is
\* there, else attachCsrf, the guard and the routes follow
GetPage ==
  /\ pc = "pending"
  /\ req.route = "GET"
  /\ pc' = "done"
  /\ IF req.body.path \in PUBLIC_DIR
       THEN /\ resp' = [status |-> 200, body |-> [file |-> req.body.path]]
            /\ sessions' = sessions
       ELSE \E token \in Tokens :
              /\ sessions' = [sessions EXCEPT ![req.client] =
                                attachCsrf(sessions[req.client], token)]
              /\ resp' = guard(req.body.path,
                               attachCsrf(sessions[req.client], token))
  /\ UNCHANGED <<req, now, peer, generated, users, settings, customers,
                 projects, FAILS, inflight, streak, uploads>>

\* a browser that asks for pages, logs in and logs out
PageRequests ==
  {[route |-> "GET", client |-> "c1", token |-> Undefined,
    body |-> [path |-> path]] : path \in PUBLIC_DIR \cup {"/favicon.ico"}}
    \cup {[route |-> "POST /api/auth/login", client |-> "c1",
           token |-> Undefined,
           body |-> [username |-> Str("admin"), password |-> p]] :
            p \in {Str("admin"), Str("guess")}}
    \cup {[route |-> "POST /api/auth/logout", client |-> "c1",
           token |-> Undefined, body |-> Undefined]}

NextPages ==
  \/ \E request \in PageRequests : Send(request)
  \/ GetPage
  \/ PostAuthLogin
  \/ PostAuthLogout
  \/ Receive

\* pages asked for before a login, after it and after the logout
SpecPages == Init /\ [][NextPages]_vars

\* half a minute passes between two requests
Wait ==
  /\ pc = "idle"
  /\ now < MaxHalfMinutes * 30 * 1000
  /\ now' = now + 30 * 1000
  /\ UNCHANGED <<pc, req, resp, peer, generated, backendVars>>

\* the logins one browser tries: the admin's password, a guess, a username
\* that users.json does not have, a form sent without password
LoginRequests ==
  {[route |-> "POST /api/auth/login", client |-> "c1", token |-> Undefined,
    body |-> [username |-> u, password |-> p]] :
     u \in {Str("admin"), Str("bob")},
     p \in {Str("admin"), Str("guess"), Undefined}}

NextLogin ==
  \/ \E request \in LoginRequests : Send(request)
  \/ PostAuthLogin
  \/ Receive
  \/ Wait

\* logins while the clock runs
SpecLogin == Init /\ [][NextLogin]_vars

\* the requests of a client that logs in, saves settings and asks for offers
SettingsRequests ==
  {[route |-> "POST /api/auth/login", client |-> "c1", token |-> Undefined,
    body |-> [username |-> Str("admin"), password |-> Str("admin")]]}
    \cup {[route |-> "POST /api/settings", client |-> "c1", token |-> t,
           body |-> b] : t \in {Undefined} \cup Tokens, b \in SettingsBodies}
    \cup {[route |-> "POST /api/offers/generate", client |-> c,
           token |-> Undefined, body |-> b] : c \in Clients, b \in ItemInputs}

NextSettings ==
  \/ \E request \in SettingsRequests : Send(request)
  \/ PostAuthLogin
  \/ PostSettings
  \/ mjs_PostOffersGenerate
  \/ Receive

\* settings saved between the offers of the engine of index.mjs
SpecSettings == Init /\ [][NextSettings]_vars

-----------------------------------------------------------------------------
(* The older server of part_004: the same users.json, no CSRF token, a     *)
(* login with a built-in account and an asynchronous POST /api/users       *)

\* HARDCODED_USER
HARDCODED_USER ==
  [username |-> Str("admin"), password |-> Str("Test123!"), role |-> "admin"]

\* what the login handler of part_004 answers and the user it gives the session
auth_login(body, list) ==
  IF body.username = HARDCODED_USER.username
     /\ body.password = HARDCODED_USER.password
    THEN [id |-> "static1", username |-> body.username,
          role |-> HARDCODED_USER.role]
    ELSE IF find(list, body.username) = Undefined
      THEN Undefined
      ELSE IF ~compareSync(body.password, find(list, body.username).passhash)
        THEN Undefined
        ELSE sessionUser(find(list, body.username))

\* app.post("/api/auth/login", ...) of part_004
auth_PostAuthLogin ==
  /\ pc = "pending"
  /\ req.route = "POST /api/auth/login"
  /\ pc' = "done"
  /\ IF auth_login(req.body, users) = Undefined
       THEN /\ resp' = [status |-> 401, body |-> [error |-> "Unauthorized"]]
            /\ sessions' = sessions
       ELSE /\ resp' = [status |-> 200,
                        body |-> [ok |-> TRUE,
                                  user |-> auth_login(req.body, users)]]
            /\ sessions' = [sessions EXCEPT ![req.client].user =
                              auth_login(req.body, users)]
  /\ UNCHANGED <<req, now, peer, generated, users, settings, customers,
                 projects, FAILS, inflight, streak, uploads>>

\* role === "admin" ? "admin" : "user"
roleOf(role) == IF role = Str("admin") THEN "admin" ELSE "user"

\* the item POST /api/users of part_004 pushes
auth_item(id, body) ==
  [id |-> id, username |-> body.username, passhash |-> hashSync(body.password),
   role |-> roleOf(body.role)]

\* what POST /api/users of part_004 answers before it reads bcrypt.hash, 0
\* when it goes on to the hash
auth_refusal(body, session, list) ==
  IF session.user = Undefined \/ session.user.role # "admin"
    THEN 403
    ELSE IF body.username = Undefined \/ body.password = Undefined
      THEN 400
      ELSE IF find(list, body.username) # Undefined THEN 409 ELSE 0

\* app.post("/api/users", async ...) of part_004 up to await bcrypt.hash: the
\* handler keeps the users it has read, and the browser is free to send its
\* next request while this one waits
auth_PostUsers ==
  /\ pc = "pending"
  /\ req.route = "POST /api/users"
  /\ IF auth_refusal(req.body, sessions[req.client], users) # 0
       THEN /\ pc' = "done"
            /\ resp' = [status |->
                          auth_refusal(req.body, sessions[req.client], users),
                        body |-> [error |-> "refused"]]
            /\ UNCHANGED <<req, inflight>>
       ELSE /\ Cardinality(inflight) < MaxInflight
            /\ pc' = "idle"
            /\ req' = Undefined
            /\ resp' = NoResponse
            /\ inflight' = inflight \cup {[request |-> req, users |-> users]}
  /\ UNCHANGED <<now, peer, generated, users, settings, customers, projects,
                 sessions, FAILS, streak, uploads>>

\* the rest of the handler, once bcrypt.hash has resolved: users.push(item),
\* authWrite("users.json", users) and the answer
auth_PostUsersWrite ==
  /\ pc = "idle"
  /\ \E waiting \in inflight, id \in Ids :
       /\ inflight' = inflight \ {waiting}
       /\ users' = Append(waiting.users, auth_item(id, waiting.request.body))
       /\ pc' = "done"
       /\ req' = waiting.request
       /\ resp' = [status |-> 200,
                   body |-> [id |-> id,
                             username |-> waiting.request.body.username,
                             role |-> roleOf(waiting.request.body.role)]]
  /\ UNCHANGED <<now, peer, generated, settings, customers, projects,
                 sessions, FAILS, streak, uploads>>

\* an admin's browser that adds users
AuthUsersRequests ==
  {[route |-> "POST /api/auth/login", client |-> "c1", token |-> Undefined,
    body |-> [username |-> Str("admin"), password |-> p]] :
     p \in {Str("Test123!"), Str("guess")}}
    \cup {[route |-> "POST /api/users", client |-> "c1", token |-> Undefined,
           body |-> [username |-> u, password |-> Str("pw"), role |-> r]] :
            u \in {Str("bob"), Str("eve"), Undefined},
            r \in {Undefined, Str("admin")}}

NextAuthUsers ==
  \/ \E request \in AuthUsersRequests : Send(request)
  \/ auth_PostAuthLogin
  \/ auth_PostUsers
  \/ auth_PostUsersWrite
  \/ Receive

\* users added through the server of part_004
SpecAuthUsers == Init /\ [][NextAuthUsers]_vars

\* variant: every session with a user passes requireAdmin
requireAdminAnyUser(session) == TRUE

\* requireAdmin calls next(): req.session?.user?.role === "admin"
requireAdmin(session) == session.user.role = "admin"

\* what requireCsrf, the test of the session user and requireAdmin answer in
\* front of a users route, 0 when the route goes on
usersGate(request, session) ==
  IF ~requireCsrf(request, session)
    THEN 403
    ELSE IF session.user = Undefined
      THEN 401
      ELSE IF ~requireAdmin(session) THEN 403 ELSE 0

\* the ids of the stored users
UsedIds(list) == {list[i].id : i \in 1..Len(list)}

\* the item POST /api/users of index.mjs pushes; createdAt is left out
userItem(id, body) ==
  [id |-> id, username |-> body.username, passhash |-> hashSync(body.password),
   role |-> roleOf(body.role), active |-> TRUE]

\* the handler of POST /api/users behind its gate, id being what uid() returns
createUser(id) ==
  IF req.body.username = Undefined \/ req.body.password = Undefined
    THEN /\ resp' = [status |-> 400, body |-> [error |-> "erforderlich"]]
         /\ users' = users
    ELSE IF find(users, req.body.username) # Undefined
      THEN /\ resp' = [status |-> 409, body |-> [error |-> "existiert"]]
           /\ users' = users
      ELSE /\ resp' = [status |-> 200,
                       body |-> [id |-> id, username |-> req.body.username,
                                 role |-> roleOf(req.body.role)]]
           /\ users' = Append(users, userItem(id, req.body))

\* the answer of a users route that its gate has stopped
refused(status) ==
  /\ resp' = [status |-> status, body |-> [error |-> "refused"]]
  /\ users' = users

\* app.post("/api/users", requireCsrf, ...) of index.mjs
PostUsers ==
  /\ pc = "pending"
  /\ req.route = "POST /api/users"
  /\ pc' = "done"
  /\ \E token \in Tokens, id \in Ids \ UsedIds(users) :
       /\ sessions' = [sessions EXCEPT ![req.client] =
                         attachCsrf(sessions[req.client], token)]
       /\ IF usersGate(req, attachCsrf(sessions[req.client], token)) # 0
            THEN refused(usersGate(req,
                                   attachCsrf(sessions[req.client], token)))
            ELSE createUser(id)
  /\ UNCHANGED <<req, now, peer, generated, settings, customers, projects,
                 FAILS, inflight, streak, uploads>>

\* users.findIndex((u) => u.id === id), 0 when no user has the id
findIndex(list, id) ==
  IF \E i \in 1..Len(list) : list[i].id = id
    THEN CHOOSE i \in 1..Len(list) :
           /\ list[i].id = id
           /\ \A j \in 1..(i - 1) : list[j].id # id
    ELSE 0

\* the handler of PUT /api/users/:id/toggle behind its gate
toggleUser(idx) ==
  IF idx = 0
    THEN /\ resp' = [status |-> 404, body |-> [error |-> "Not found"]]
         /\ users' = users
    ELSE /\ resp' = [status |-> 200,
                     body |-> [ok |-> TRUE, active |-> ~users[idx].active]]
         /\ users' = [users EXCEPT ![idx].active = ~users[idx].active]

\* app.put("/api/users/:id/toggle", requireCsrf, ...)
PutUsersToggle ==
  /\ pc = "pending"
  /\ req.route = "PUT /api/users/:id/toggle"
  /\ pc' = "done"
  /\ \E token \in Tokens :
       /\ sessions' = [sessions EXCEPT ![req.client] =
                         attachCsrf(sessions[req.client], token)]
       /\ IF usersGate(req, attachCsrf(sessions[req.client], token)) # 0
            THEN refused(usersGate(req,
                                   attachCsrf(sessions[req.client], token)))
            ELSE toggleUser(findIndex(users, req.body.id))
  /\ UNCHANGED <<req, now, peer, generated, settings, customers, projects,
                 FAILS, inflight, streak, uploads>>

\* users.filter((u) => u.id !== id)
withoutId(list, id) == SelectSeq(list, LAMBDA u : u.id # id)

\* the handler of DELETE /api/users/:id behind its gate
deleteUser(next) ==
  IF Len(next) = Len(users)
    THEN /\ resp' = [status |-> 404, body |-> [error |-> "Not found"]]
         /\ users' = users
    ELSE /\ resp' = [status |-> 200, body |-> [ok |-> TRUE]]
         /\ users' = next

\* app.delete("/api/users/:id", requireCsrf, ...)
DeleteUsers ==
  /\ pc = "pending"
  /\ req.route = "DELETE /api/users/:id"
  /\ pc' = "done"
  /\ \E token \in Tokens :
       /\ sessions' = [sessions EXCEPT ![req.client] =
                         attachCsrf(sessions[req.client], token)]
       /\ IF usersGate(req, attachCsrf(sessions[req.client], token)) # 0
            THEN refused(usersGate(req,
                                   attachCsrf(sessions[req.client], token)))
            ELSE deleteUser(withoutId(users, req.body.id))
  /\ UNCHANGED <<req, now, peer, generated, settings, customers, projects,
                 FAILS, inflight, streak, uploads>>

\* the routes that write users.json for an admin
UsersRoutes ==
  {"POST /api/users", "PUT /api/users/:id/toggle", "DELETE /api/users/:id"}

\* the admin in one browser, bob in the other, each with or without the token
UsersRequests ==
  {[route |-> "POST /api/auth/login", client |-> "c1", token |-> Undefined,
    body |-> [username |-> Str("admin"), password |-> Str("admin")]],
   [route |-> "POST /api/auth/login", client |-> "c2", token |-> Undefined,
    body |-> [username |-> Str("bob"), password |-> Str("pw")]]}
    \cup {[route |-> "POST /api/users", client |-> c, token |-> t,
           body |-> [username |-> u, password |-> Str("pw"),
                     role |-> Undefined]] :
            c \in Clients, t \in {Undefined, Str("t1")},
            u \in {Str("bob"), Undefined}}
    \cup {[route |-> r, client |-> c, token |-> t, body |-> [id |-> id]] :
            r \in UsersRoutes \ {"POST /api/users"}, c \in Clients,
            t \in {Undefined, Str("t1")}, id \in {"u0", "u1"}}

NextUsers ==
  \/ \E request \in UsersRequests : Send(request)
  \/ PostAuthLogin
  \/ PostUsers
  \/ PutUsersToggle
  \/ DeleteUsers
  \/ Receive

\* the users routes of index.mjs asked by an admin and by others
SpecUsers == Init /\ [][NextUsers]_vars

\* the admin in one browser adds bob and toggles him, bob logs in from the
\* other browser
ToggleRequests ==
  {[route |-> "POST /api/auth/login", client |-> "c1", token |-> Undefined,
    body |-> [username |-> Str("admin"), password |-> Str("admin")]]}
    \cup {[route |-> "POST /api/auth/login", client |-> "c2",
           token |-> Undefined,
           body |-> [username |-> Str("bob"), password |-> p]] :
            p \in {Str("pw"), Str("guess")}}
    \cup {[route |-> "POST /api/users", client |-> "c1", token |-> t,
           body |-> [username |-> Str("bob"), password |-> Str("pw"),
                     role |-> Undefined]] : t \in Tokens}
    \cup {[route |-> "PUT /api/users/:id/toggle", client |-> "c1",
           token |-> t, body |-> [id |-> id]] : t \in Tokens, id \in Ids}

NextToggle ==
  \/ \E request \in ToggleRequests : Send(request)
  \/ PostAuthLogin
  \/ PostUsers
  \/ PutUsersToggle
  \/ Receive
  \/ Wait

\* logins of a user the admin toggles while the clock runs
SpecToggle == Init /\ [][NextToggle]_vars

-----------------------------------------------------------------------------
(* The other routes of index.mjs behind requireCsrf                         *)

\* req.session after attachCsrf, token being what genCsrf returns
Attached(token) == attachCsrf(sessions[req.client], token)

\* a request to route is taken up and attachCsrf has run
Arrives(route, token) ==
  /\ pc = "pending"
  /\ req.route = route
  /\ pc' = "done"
  /\ sessions' = [sessions EXCEPT ![req.client] = Attached(token)]
  /\ UNCHANGED <<req, now, peer, FAILS, inflight, streak>>

\* what requireCsrf and the test of the session user answer, 0 when the
\* handler goes on
userGate(request, session) ==
  IF ~requireCsrf(request, session)
    THEN 403
    ELSE IF session.user = Undefined THEN 401 ELSE 0

Answer(status) == resp' = [status |-> status, body |-> Undefined]

\* the customers, projects and generated files there are
Records == Len(customers) + Len(projects) + Cardinality(generated)

\* app.post("/api/auth/change-password", requireCsrf, ...)
PostAuthChangePassword ==
  \E token \in Tokens :
    /\ Arrives("POST /api/auth/change-password", token)
    /\ IF userGate(req, Attached(token)) # 0
         THEN Answer(userGate(req, Attached(token))) /\ users' = users
         ELSE IF findIndex(users, Attached(token).user.id) = 0
           THEN Answer(404) /\ users' = users
           ELSE IF ~compareSync(req.body.oldPass,
                     users[findIndex(users, Attached(token).user.id)].passhash)
             THEN Answer(400) /\ users' = users
             ELSE /\ Answer(200)
                  /\ users' =
                       [users EXCEPT
                          ![findIndex(users, Attached(token).user.id)].passhash
                            = hashSync(req.body.newPass)]
    /\ UNCHANGED <<settings, customers, projects, generated, uploads>>

\* app.post("/api/settings/logo", requireCsrf, uploadLogo.single("logo"), ...):
\* multer has written public/logo.png when the handler looks at the session
PostSettingsLogo ==
  \E token \in Tokens :
    /\ Arrives("POST /api/settings/logo", token)
    /\ IF ~requireCsrf(req, Attached(token))
         THEN Answer(403) /\ uploads' = uploads
         ELSE /\ uploads' = [uploads EXCEPT !.logo = req.body.logo]
              /\ Answer(IF Attached(token).user = Undefined THEN 401 ELSE 200)
    /\ UNCHANGED <<users, settings, customers, projects, generated>>

\* app.post("/api/customers", requireCsrf, ...); a customer is [id, name]
PostCustomers ==
  \E token \in Tokens, id \in Ids :
    /\ Arrives("POST /api/customers", token)
    /\ IF userGate(req, Attached(token)) # 0
         THEN Answer(userGate(req, Attached(token))) /\ customers' = customers
         ELSE IF req.body.name = Undefined
           THEN Answer(400) /\ customers' = customers
           ELSE /\ Records < MaxRecords
                /\ id \notin UsedIds(customers)
                /\ Answer(200)
                /\ customers' =
                     Append(customers, [id |-> id, name |-> req.body.name])
    /\ UNCHANGED <<users, settings, projects, generated, uploads>>

\* app.put("/api/customers/:id", requireCsrf, ...)
PutCustomers ==
  \E token \in Tokens :
    /\ Arrives("PUT /api/customers/:id", token)
    /\ IF userGate(req, Attached(token)) # 0
         THEN Answer(userGate(req, Attached(token))) /\ customers' = customers
         ELSE IF findIndex(customers, req.body.id) = 0
           THEN Answer(404) /\ customers' = customers
           ELSE /\ Answer(200)
                /\ customers' =
                     [customers EXCEPT ![findIndex(customers, req.body.id)].name
                        = Nullish(req.body.name, @)]
    /\ UNCHANGED <<users, settings, projects, generated, uploads>>

\* app.delete("/api/customers/:id", requireCsrf, ...)
DeleteCustomers ==
  \E token \in Tokens :
    /\ Arrives("DELETE /api/customers/:id", token)
    /\ IF userGate(req, Attached(token)) # 0
         THEN Answer(userGate(req, Attached(token))) /\ customers' = customers
         ELSE IF Len(withoutId(customers, req.body.id)) = Len(customers)
           THEN Answer(404) /\ customers' = customers
           ELSE Answer(200) /\ customers' = withoutId(customers, req.body.id)
    /\ UNCHANGED <<users, settings, projects, generated, uploads>>

\* app.post("/api/projects", requireCsrf, ...); a project is [id, title]
PostProjects ==
  \E token \in Tokens, id \in Ids :
    /\ Arrives("POST /api/projects", token)
    /\ IF userGate(req, Attached(token)) # 0
         THEN Answer(userGate(req, Attached(token))) /\ projects' = projects
         ELSE IF req.body.title = Undefined
           THEN Answer(400) /\ projects' = projects
           ELSE /\ Records < MaxRecords
                /\ id \notin UsedIds(projects)
                /\ Answer(200)
                /\ projects' =
                     Append(projects, [id |-> id, title |-> req.body.title])
    /\ UNCHANGED <<users, settings, customers, generated, uploads>>

\* app.put("/api/projects/:id", requireCsrf, ...)
PutProjects ==
  \E token \in Tokens :
    /\ Arrives("PUT /api/projects/:id", token)
    /\ IF userGate(req, Attached(token)) # 0
         THEN Answer(userGate(req, Attached(token))) /\ projects' = projects
         ELSE IF findIndex(projects, req.body.id) = 0
           THEN Answer(404) /\ projects' = projects
           ELSE /\ Answer(200)
                /\ projects' =
                     [projects EXCEPT ![findIndex(projects, req.body.id)].title
                        = Nullish(req.body.title, @)]
    /\ UNCHANGED <<users, settings, customers, generated, uploads>>

\* app.delete("/api/projects/:id", requireCsrf, ...)
DeleteProjects ==
  \E token \in Tokens :
    /\ Arrives("DELETE /api/projects/:id", token)
    /\ IF userGate(req, Attached(token)) # 0
         THEN Answer(userGate(req, Attached(token))) /\ projects' = projects
         ELSE IF Len(withoutId(projects, req.body.id)) = Len(projects)
           THEN Answer(404) /\ projects' = projects
           ELSE Answer(200) /\ projects' = withoutId(projects, req.body.id)
    /\ UNCHANGED <<users, settings, customers, generated, uploads>>

\* app.post("/api/projects/:id/files", requireCsrf,
\*          uploadProjectFile.single("file"), ...): multer has stored the file
\* as Date.now() + "_" + its name when the handler looks at the session
PostProjectsFiles ==
  \E token \in Tokens :
    /\ Arrives("POST /api/projects/:id/files", token)
    /\ IF ~requireCsrf(req, Attached(token))
         THEN Answer(403) /\ uploads' = uploads
         ELSE /\ uploads' =
                   IF req.body.file = Undefined
                     THEN uploads
                     ELSE [uploads EXCEPT !.files = @ \cup {<<now, req.body.file>>}]
              /\ Answer(IF Attached(token).user = Undefined
                          THEN 401
                          ELSE IF req.body.file = Undefined THEN 400 ELSE 200)
    /\ UNCHANGED <<users, settings, customers, projects, generated>>

\* `Angebot_${company}_${customer}_${date}_${Date.now()}.pdf`; the body of
\* the model names no company and no customer
pdfName(clock) == <<"Angebot_", clock, ".pdf">>

\* exportOfferToPDF of index.mjs: the document written is modelled by the
\* offer it renders
mjs_exportOfferToPDF(files, offer, clock) ==
  {f \in files : f.path # pdfName(clock)}
    \cup {[path |-> pdfName(clock), offer |-> offer]}

\* app.post("/api/offers/export-pdf", requireCsrf, ...)
mjs_PostOffersExportPdf ==
  \E token \in Tokens :
    /\ Arrives("POST /api/offers/export-pdf", token)
    /\ IF userGate(req, Attached(token)) # 0
         THEN Answer(userGate(req, Attached(token))) /\ generated' = generated
         ELSE /\ Records < MaxRecords
              /\ Answer(200)
              /\ generated' = mjs_exportOfferToPDF(generated, req.body, now)
    /\ UNCHANGED <<users, settings, customers, projects, uploads>>

\* the files of generated/ but the one with that name
unlink(files, name) == {f \in files : f.path # name}

\* app.delete("/api/pdfs", requireCsrf, ...)
DeletePdfs ==
  \E token \in Tokens :
    /\ Arrives("DELETE /api/pdfs", token)
    /\ IF userGate(req, Attached(token)) # 0
         THEN Answer(userGate(req, Attached(token))) /\ generated' = generated
         ELSE IF req.body.name = Undefined
           THEN Answer(400) /\ generated' = generated
           ELSE IF unlink(generated, req.body.name) = generated
             THEN Answer(404) /\ generated' = generated
             ELSE Answer(200) /\ generated' = unlink(generated, req.body.name)
    /\ UNCHANGED <<users, settings, customers, projects, uploads>>

\* fs.renameSync(oldP, newP): the file at newP is replaced
renameSync(files, oldName, newName) ==
  {f \in files : f.path # oldName /\ f.path # newName}
    \cup {[f EXCEPT !.path = newName] : f \in {g \in files : g.path = oldName}}

\* app.post("/api/pdfs/rename", requireCsrf, ...)
PostPdfsRename ==
  \E token \in Tokens :
    /\ Arrives("POST /api/pdfs/rename", token)
    /\ IF userGate(req, Attached(token)) # 0
         THEN Answer(userGate(req, Attached(token))) /\ generated' = generated
         ELSE IF req.body.oldName = Undefined \/ req.body.newName = Undefined
           THEN Answer(400) /\ generated' = generated
           ELSE IF unlink(generated, req.body.oldName) = generated
             THEN Answer(404) /\ generated' = generated
             ELSE /\ Answer(200)
                  /\ generated' = renameSync(generated, req.body.oldName,
                                             req.body.newName)
    /\ UNCHANGED <<users, settings, customers, projects, uploads>>

\* app.post("/api/pdfs/send", requireCsrf, ...) of a server started without
\* SMTP_HOST: 501 once the token and the session user have passed
PostPdfsSend ==
  \E token \in Tokens :
    /\ Arrives("POST /api/pdfs/send", token)
    /\ IF userGate(req, Attached(token)) # 0
         THEN Answer(userGate(req, Attached(token)))
         ELSE Answer(501)
    /\ UNCHANGED <<users, settings, customers, projects, generated, uploads>>

\* the handler of POST /api/backups/import behind requireCsrf
importBackup(session) ==
  IF session.user = Undefined \/ session.user.role # "admin"
    THEN /\ Answer(403)
         /\ UNCHANGED <<users, settings, customers, projects>>
    ELSE /\ Answer(200)
         /\ settings' = Nullish(req.body.settings, settings)
         /\ users' = IF req.body.users = Undefined
                       THEN users ELSE Elems(req.body.users)
         /\ customers' = IF req.body.customers = Undefined
                           THEN customers ELSE Elems(req.body.customers)
         /\ projects' = IF req.body.projects = Undefined
                          THEN projects ELSE Elems(req.body.projects)

\* app.post("/api/backups/import", requireCsrf, ...)
PostBackupsImport ==
  \E token \in Tokens :
    /\ Arrives("POST /api/backups/import", token)
    /\ IF ~requireCsrf(req, Attached(token))
         THEN /\ Answer(403)
              /\ UNCHANGED <<users, settings, customers, projects>>
         ELSE importBackup(Attached(token))
    /\ UNCHANGED <<generated, uploads>>

\* the routes behind requireCsrf with the body the browser of the model
\* sends to each
CsrfBodies ==
  [route : {"POST /api/auth/change-password"},
   body : {[oldPass |-> Str("admin"), newPass |-> Str("neu")]}]
  \cup [route : {"POST /api/users"},
        body : {[username |-> Str("bob"), password |-> Str("pw"),
                 role |-> Undefined]}]
  \cup [route : {"PUT /api/users/:id/toggle", "DELETE /api/users/:id"},
        body : {[id |-> "u0"]}]
  \cup [route : {"POST /api/settings"},
        body : {[taxRate |-> F(7), marginRate |-> F(20)]}]
  \cup [route : {"POST /api/settings/logo"}, body : {[logo |-> Str("png")]}]
  \cup [route : {"POST /api/customers"}, body : {[name |-> Str("Meier")]}]
  \cup [route : {"PUT /api/customers/:id"},
        body : {[id |-> "u1", name |-> Str("Schulz")]}]
  \cup [route : {"DELETE /api/customers/:id", "DELETE /api/projects/:id"},
        body : {[id |-> "u1"]}]
  \cup [route : {"POST /api/projects"}, body : {[title |-> Str("Bad")]}]
  \cup [route : {"PUT /api/projects/:id"},
        body : {[id |-> "u1", title |-> Str("Kueche")]}]
  \cup [route : {"POST /api/projects/:id/files"},
        body : {[file |-> Str("plan.pdf")]}]
  \cup [route : {"POST /api/offers/export-pdf"},
        body : {[items |-> Arr(<<>>)]}]
  \cup [route : {"DELETE /api/pdfs"}, body : {[name |-> pdfName(0)]}]
  \cup [route : {"POST /api/pdfs/rename"},
        body : {[oldName |-> pdfName(0), newName |-> <<"Angebot.pdf">>]}]
  \cup [route : {"POST /api/pdfs/send"}, body : {[name |-> pdfName(0)]}]
  \cup [route : {"POST /api/backups/import"},
        body : {[settings |-> Undefined, users |-> Arr(ensureAdmin),
                 customers |-> Arr(<<>>), projects |-> Undefined]}]

\* the routes behind requireCsrf
CsrfRoutes == {b.route : b \in CsrfBodies}

\* one browser that logs in as admin and asks every route behind requireCsrf,
\* without token and with the one or the other token
CsrfRequests ==
  {[route |-> "POST /api/auth/login", client |-> "c1", token |-> Undefined,
    body |-> [username |-> Str("admin"), password |-> Str("admin")]]}
    \cup {[route |-> b.route, client |-> "c1", token |-> t, body |-> b.body] :
            b \in CsrfBodies, t \in {Undefined} \cup Tokens}

NextCsrf ==
  \/ \E request \in CsrfRequests : Send(request)
  \/ PostAuthLogin
  \/ PostAuthChangePassword
  \/ PostUsers
  \/ PutUsersToggle
  \/ DeleteUsers
  \/ PostSettings
  \/ PostSettingsLogo
  \/ PostCustomers
  \/ PutCustomers
  \/ DeleteCustomers
  \/ PostProjects
  \/ PutProjects
  \/ DeleteProjects
  \/ PostProjectsFiles
  \/ mjs_PostOffersExportPdf
  \/ DeletePdfs
  \/ PostPdfsRename
  \/ PostPdfsSend
  \/ PostBackupsImport
  \/ Receive

\* every route behind requireCsrf
SpecCsrf == Init /\ [][NextCsrf]_vars

-----------------------------------------------------------------------------
(* Properties                                                              *)

\* the handler has answered 200 with an Offer
Ok200 == pc = "done" /\ resp.status = 200

RoomsOf(input) ==
  IF input.project.rooms = Undefined THEN <<>> ELSE Elems(input.project.rooms)
MaterialsOf(input) ==
  IF input.project.materials = Undefined THEN <<>>
  ELSE Elems(input.project.materials)

\* the item totals added from left to right, starting from 0
RECURSIVE SumTotals(_, _)
SumTotals(its, i) ==
  IF i = 0 THEN FZero ELSE FAdd(SumTotals(its, i - 1), its[i].total)

Percent(x, pct) == round2(FDiv(FMul(x, pct), 100))

\* C1 as stated: subtotal = round2(sum of the item totals), totalBeforeTax =
\* subtotal + margin and total = totalBeforeTax + tax, as exact equalities
\* of the returned numbers.
C1_ExactSums ==
  Ok200 =>
    /\ resp.body.subtotal
         = round2(SumTotals(resp.body.items, Len(resp.body.items)))
    /\ resp.body.totalBeforeTax = FAdd(resp.body.subtotal, resp.body.margin)
    /\ resp.body.total = FAdd(resp.body.totalBeforeTax, resp.body.tax)

\* C1 amended: subtotal = round2(sum of the item totals), totalBeforeTax =
\* round2(subtotal + margin) and total = round2(totalBeforeTax + tax): the
\* two sums are equal to the returned values only after round2, because the
\* double nearest to a sum of two doubles need not be a 2-decimal value.
C1_RoundedSums ==
  Ok200 =>
    /\ resp.body.subtotal
         = round2(SumTotals(resp.body.items, Len(resp.body.items)))
    /\ resp.body.totalBeforeTax
         = round2(FAdd(resp.body.subtotal, resp.body.margin))
    /\ resp.body.total = round2(FAdd(resp.body.totalBeforeTax, resp.body.tax))

\* an Offer whose exact sum subtotal + margin is not a 2-decimal double
C1_Witness ==
  /\ Ok200
  /\ resp.body.items # <<>>
  /\ FAdd(resp.body.subtotal, resp.body.margin) # resp.body.totalBeforeTax

\* C2: every monetary field of the Offer (each item's total, subtotal,
\* margin, totalBeforeTax, tax, total) is unchanged by round2.
C2_TwoDecimals ==
  Ok200 =>
    /\ \A i \in 1..Len(resp.body.items) :
         round2(resp.body.items[i].total) = resp.body.items[i].total
    /\ round2(resp.body.subtotal) = resp.body.subtotal
    /\ round2(resp.body.margin) = resp.body.margin
    /\ round2(resp.body.totalBeforeTax) = resp.body.totalBeforeTax
    /\ round2(resp.body.tax) = resp.body.tax
    /\ round2(resp.body.total) = resp.body.total

\* an Offer with items, a margin and a tax that are not zero
C2_Witness ==
  /\ Ok200
  /\ resp.body.items # <<>>
  /\ resp.body.margin # FZero
  /\ resp.body.tax # FZero

\* C3: every item's total is round2(quantity * unitPrice) of the quantity
\* and unitPrice the item itself carries.
C3_LineTotals ==
  Ok200 =>
    \A i \in 1..Len(resp.body.items) :
      resp.body.items[i].total
        = round2(FMul(resp.body.items[i].quantity,
                      resp.body.items[i].unitPrice))

\* C4: scenario A (maler, one room 4 x 5 x 2.6, rate 55, no margin or tax
\* given) yields a labor item 4.25 Std at 55 = 233.75, then a paint item
\* 8.35 l at 6.0 = 50.1; subtotal is their sum, margin 15% of it and tax
\* 19% of subtotal + margin.
C4_ScenarioA ==
  (Ok200 /\ req = ScenarioA) =>
    /\ Len(resp.body.items) = 2
    /\ resp.body.items[1].unit = "Std"
    /\ resp.body.items[1].quantity = Dec(425, 100)
    /\ resp.body.items[1].unitPrice = F(55)
    /\ resp.body.items[1].total = Dec(23375, 100)
    /\ resp.body.items[2].unit = "l"
    /\ resp.body.items[2].quantity = Dec(835, 100)
    /\ resp.body.items[2].unitPrice = F(6)
    /\ resp.body.items[2].total = Dec(501, 10)
    /\ resp.body.subtotal
         = round2(FAdd(resp.body.items[1].total, resp.body.items[2].total))
    /\ resp.body.margin = Percent(resp.body.subtotal, F(15))
    /\ resp.body.tax
         = Percent(round2(FAdd(resp.body.subtotal, resp.body.margin)), F(19))

IsScenarioB(input) ==
  /\ input.trade = "boden"
  /\ RoomsOf(input) = <<>>
  /\ input.project.materials = Arr(<<Laminat>>)
  /\ input.marginPercentage = Undefined
  /\ input.taxRatePercentage = Undefined

\* C5: scenario B (boden, no rooms, one material 25 x 40, no margin or tax
\* given) yields one item of total 1000.00, subtotal 1000.00, margin
\* 150.00, totalBeforeTax 1150.00, tax 218.50 and total 1368.50.
C5_ScenarioB ==
  (Ok200 /\ IsScenarioB(req)) =>
    /\ Len(resp.body.items) = 1
    /\ resp.body.items[1].total = F(1000)
    /\ resp.body.subtotal = F(1000)
    /\ resp.body.margin = F(150)
    /\ resp.body.totalBeforeTax = F(1150)
    /\ resp.body.tax = Dec(2185, 10)
    /\ resp.body.total = Dec(13685, 10)

C5_Witness == Ok200 /\ IsScenarioB(req)

PercentagesGiven(input) ==
  input.marginPercentage # Undefined /\ input.taxRatePercentage # Undefined

\* C6: with marginPercentage m and taxRatePercentage t given, margin =
\* round2(subtotal * m / 100), totalBeforeTax = round2(subtotal + margin),
\* tax = round2(totalBeforeTax * t / 100), total = round2(totalBeforeTax +
\* tax): the tax is taken on the amount that includes the margin.
C6_RollUp ==
  (Ok200 /\ PercentagesGiven(req)) =>
    /\ resp.body.margin = Percent(resp.body.subtotal, req.marginPercentage)
    /\ resp.body.totalBeforeTax
         = round2(FAdd(resp.body.subtotal, resp.body.margin))
    /\ resp.body.tax
         = Percent(resp.body.totalBeforeTax, req.taxRatePercentage)
    /\ resp.body.total = round2(FAdd(resp.body.totalBeforeTax, resp.body.tax))

\* an Offer whose tax differs from the tax the bare subtotal would give
C6_Witness ==
  /\ Ok200
  /\ PercentagesGiven(req)
  /\ resp.body.margin # FZero
  /\ resp.body.tax # Percent(resp.body.subtotal, req.taxRatePercentage)

PercentagesAbsent(input) ==
  input.marginPercentage = Undefined /\ input.taxRatePercentage = Undefined

WithPercentages(input) ==
  [input EXCEPT !.marginPercentage = F(15), !.taxRatePercentage = F(19)]

WithHeights(input) ==
  IF input.project.rooms = Undefined THEN input
  ELSE [input EXCEPT !.project.rooms =
          Arr([i \in 1..Len(Elems(input.project.rooms)) |->
                 [Elems(input.project.rooms)[i] EXCEPT
                    !.height_m =
                      Nullish(Elems(input.project.rooms)[i].height_m,
                              Dec(26, 10))]])]

ApartFromIdAndTime(o) == [o EXCEPT !.id = Undefined, !.createdAt = 0]

Amounts(o) ==
  <<o.items, o.subtotal, o.margin, o.totalBeforeTax, o.tax, o.total,
    o.currency>>

\* C7 as stated: with marginPercentage and taxRatePercentage both absent the
\* Offer equals, apart from id and createdAt, the Offer for the same input
\* with 15 and 19 given; a room without height is computed as with 2.6.
C7_SameOffer ==
  Ok200 =>
    /\ PercentagesAbsent(req) =>
         ApartFromIdAndTime(resp.body)
           = ApartFromIdAndTime(generateOffer(WithPercentages(req), now))
    /\ Amounts(resp.body) = Amounts(generateOffer(WithHeights(req), now))

\* C7 amended: with both percentages absent the Offer has the items,
\* subtotal, margin, totalBeforeTax, tax, total and currency of the Offer
\* for the same input with 15 and 19 given (the echoed input differs: it
\* carries the percentages only in the second); a room without height is
\* computed as with 2.6.
C7_SameAmounts ==
  Ok200 =>
    /\ PercentagesAbsent(req) =>
         Amounts(resp.body) = Amounts(generateOffer(WithPercentages(req), now))
    /\ Amounts(resp.body) = Amounts(generateOffer(WithHeights(req), now))

\* an Offer for percentages left out and a painted room without a height
C7_Witness ==
  /\ Ok200
  /\ PercentagesAbsent(req)
  /\ hasRooms(req)
  /\ \E i \in 1..Len(RoomsOf(req)) : RoomsOf(req)[i].height_m = Undefined
  /\ resp.body.margin # FZero

IsEmptyElektro(input) ==
  /\ input.trade = "elektro"
  /\ RoomsOf(input) = <<>>
  /\ MaterialsOf(input) = <<>>

\* C8: trade elektro with no rooms and no materials yields no item and
\* subtotal = margin = totalBeforeTax = tax = total = 0, whatever the labor
\* rate and the percentages.
C8_EmptyOffer ==
  (Ok200 /\ IsEmptyElektro(req)) =>
    /\ resp.body.items = <<>>
    /\ resp.body.subtotal = FZero
    /\ resp.body.margin = FZero
    /\ resp.body.totalBeforeTax = FZero
    /\ resp.body.tax = FZero
    /\ resp.body.total = FZero

C8_Witness == Ok200 /\ IsEmptyElektro(req) /\ PercentagesGiven(req)

IsLaborItemOf(it, room) ==
  /\ it.unit = "Std"
  /\ it.description.text = "Malerarbeiten"
  /\ it.description.name = room.name

IsPaintItemOf(it, room) ==
  /\ it.unit = "l"
  /\ it.description.text = "Material: Qualitaetsfarbe"
  /\ it.quantity = round2(paintLiters(wallArea(room), ceilingArea(room)))

IsMaterialItemOf(it, m) ==
  /\ it.description.text = "Material"
  /\ it.description.name = m.name
  /\ it.quantity = m.quantity
  /\ it.unit = m.unit
  /\ it.unitPrice = m.unitPrice
  /\ it.total = round2(FMul(m.unitPrice, m.quantity))

\* C9: for trade maler with n rooms and k materials the Offer has exactly
\* 2n + k items: for each room in input order its labor item then its
\* paint item, then one item per material in input order.
C9_ItemOrder ==
  (Ok200 /\ req.trade = "maler") =>
    /\ Len(resp.body.items) = 2 * Len(RoomsOf(req)) + Len(MaterialsOf(req))
    /\ \A i \in 1..Len(RoomsOf(req)) :
         /\ IsLaborItemOf(resp.body.items[2 * i - 1], RoomsOf(req)[i])
         /\ IsPaintItemOf(resp.body.items[2 * i], RoomsOf(req)[i])
    /\ \A j \in 1..Len(MaterialsOf(req)) :
         IsMaterialItemOf(resp.body.items[2 * Len(RoomsOf(req)) + j],
                          MaterialsOf(req)[j])

\* an Offer for two different rooms and two different materials
C9_Witness ==
  /\ Ok200
  /\ req.trade = "maler"
  /\ Len(RoomsOf(req)) = 2
  /\ RoomsOf(req)[1] # RoomsOf(req)[2]
  /\ Len(MaterialsOf(req)) = 2
  /\ MaterialsOf(req)[1] # MaterialsOf(req)[2]

NoRoomItems(input) == input.trade # "maler" \/ RoomsOf(input) = <<>>

\* C10: for a trade other than maler, even with rooms listed, and for maler
\* with the room list absent or empty, the items are exactly the explicit
\* materials; with no materials all totals are 0.
C10_OnlyMaterials ==
  (Ok200 /\ NoRoomItems(req)) =>
    /\ Len(resp.body.items) = Len(MaterialsOf(req))
    /\ \A j \in 1..Len(MaterialsOf(req)) :
         IsMaterialItemOf(resp.body.items[j], MaterialsOf(req)[j])
    /\ MaterialsOf(req) = <<>> =>
         /\ resp.body.subtotal = FZero
         /\ resp.body.margin = FZero
         /\ resp.body.totalBeforeTax = FZero
         /\ resp.body.tax = FZero
         /\ resp.body.total = FZero

\* an Offer for another trade than maler whose project lists rooms
C10_Witness ==
  /\ Ok200
  /\ req.trade # "maler"
  /\ RoomsOf(req) # <<>>
  /\ MaterialsOf(req) # <<>>

\* C11: whatever the trade, the items end with one item per explicit
\* material, in input order and nothing else after the room items; the item
\* carries the material's quantity, unit and unitPrice as given, unrounded,
\* and total = round2(unitPrice * quantity).
C11_MaterialItems ==
  Ok200 =>
    LET its == resp.body.items
        ms == MaterialsOf(req)
        first == Len(its) - Len(ms)
    IN /\ first = (IF hasRooms(req) THEN 2 * Len(RoomsOf(req)) ELSE 0)
       /\ \A j \in 1..Len(ms) :
            /\ its[first + j].quantity = ms[j].quantity
            /\ its[first + j].unit = ms[j].unit
            /\ its[first + j].unitPrice = ms[j].unitPrice
            /\ its[first + j].total = round2(FMul(ms[j].unitPrice, ms[j].quantity))

\* a maler offer with a room and a material whose quantity has three decimals
C11_Witness ==
  /\ Ok200
  /\ req.trade = "maler"
  /\ RoomsOf(req) # <<>>
  /\ \E j \in 1..Len(MaterialsOf(req)) :
       /\ MaterialsOf(req)[j].quantity # round2(MaterialsOf(req)[j].quantity)
       /\ resp.body.items[2 * Len(RoomsOf(req)) + j].quantity
            = MaterialsOf(req)[j].quantity

\* the Offers in sight: the responses not yet read and the exported files
Returned ==
  {r.body : r \in {r \in {resp, peer.resp} : r.status = 200}}
    \cup {f.offer : f \in generated}

C13_InputUnchanged ==
  [][(pc = "pending" /\ pc' = "done") =>
       /\ req' = req
       /\ resp'.status = 200 => resp'.body.input = req]_vars

\* an Offer for a maler input whose optional fields the engine had to default
C13_Witness ==
  /\ Ok200
  /\ req.trade = "maler"
  /\ PercentagesAbsent(req)
  /\ \E i \in 1..Len(RoomsOf(req)) : RoomsOf(req)[i].height_m = Undefined
  /\ resp.body.input = req

\* what a server that serves nothing else answers to body
Alone(body) == Respond(body, 0)

SameAnswer(r, a) ==
  /\ r.status = a.status
  /\ r.status = 200 => Amounts(r.body) = Amounts(a.body)

NotNumeric(v) == v # Undefined /\ ~IsNumber(v)

\* the body has a trade outside the enumeration, lacks laborRatePerHour, or
\* has a dimension or a price that is no number
ShapeDefect(body) ==
  \/ body.trade \notin {"maler", "elektro", "sanitaer", "boden", "dach"}
  \/ body.laborRatePerHour = Undefined
  \/ \E i \in 1..Len(RoomsOf(body)) :
       \/ NotNumeric(RoomsOf(body)[i].width_m)
       \/ NotNumeric(RoomsOf(body)[i].length_m)
       \/ NotNumeric(RoomsOf(body)[i].height_m)
  \/ \E i \in 1..Len(MaterialsOf(body)) :
       \/ NotNumeric(MaterialsOf(body)[i].unitPrice)
       \/ NotNumeric(MaterialsOf(body)[i].quantity)

\* C15: a body of invalid shape is answered with status 400 and an object
\* that holds an error message and nothing of an Offer: the engine has not
\* run on it.
C15_Rejected ==
  (pc = "done" /\ ShapeDefect(req)) =>
    /\ resp.status = 400
    /\ DOMAIN resp.body = {"error"}

\* a body whose only defect is the trade has been answered 400
C15_Witness ==
  /\ pc = "done"
  /\ req.trade = "garten"
  /\ ShapeDefect(req)
  /\ resp.status = 400

Positive(x) == x # Undefined /\ x[1] # <<>>

\* the preconditions of the engine on the numbers the model draws (none of
\* them is negative): for maler with rooms, width and length are positive
\* and so is a height that is given
Preconditions(input) ==
  hasRooms(input) =>
    \A i \in 1..Len(RoomsOf(input)) :
      /\ Positive(RoomsOf(input)[i].width_m)
      /\ Positive(RoomsOf(input)[i].length_m)
      /\ Positive(h(RoomsOf(input)[i]))

\* C16: an input the engine has computed an Offer for satisfies the engine's
\* preconditions; a request that violates them is answered with a rejection.
C16_Preconditions ==
  /\ Ok200 => Preconditions(req)
  /\ (pc = "done" /\ ~Preconditions(req)) => resp.status = 400

OfferFields ==
  {"id", "createdAt", "input", "items", "subtotal", "margin",
   "totalBeforeTax", "tax", "total", "currency"}

\* C17: every body that passes the schema is answered 200 with a complete
\* Offer, whichever of rooms, materials, room height, marginPercentage and
\* taxRatePercentage are absent: the engine raises nothing.
C17_Completes ==
  (pc = "done" /\ OfferSchema(req)) =>
    /\ resp.status = 200
    /\ DOMAIN resp.body = OfferFields
    /\ \A f \in {"subtotal", "margin", "totalBeforeTax", "tax", "total"} :
         IsNumber(resp.body[f])

\* an Offer for a body with no rooms, no materials, no margin and no tax
C17_Witness ==
  /\ Ok200
  /\ req.project.rooms = Undefined
  /\ req.project.materials = Undefined
  /\ PercentagesAbsent(req)
  /\ DOMAIN resp.body = OfferFields

NoFloor(room) == room.width_m = FZero /\ room.length_m = FZero

\* C18: zeros are computed with, not rejected.  For maler with rooms the
\* body is answered 200; with laborRatePerHour = 0 every room still has its
\* labor item, of total 0; a room with width 0 and length 0 has a labor
\* item and a paint item of quantity 0 and total 0; and subtotal, margin,
\* totalBeforeTax, tax and total are rolled up from the items as always.
C18_Zeros ==
  (pc = "done" /\ hasRooms(req)) =>
    /\ resp.status = 200
    /\ Len(resp.body.items) = 2 * Len(RoomsOf(req)) + Len(MaterialsOf(req))
    /\ \A i \in 1..Len(RoomsOf(req)) :
         LET labor == resp.body.items[2 * i - 1]
             paint == resp.body.items[2 * i]
         IN /\ labor.unit = "Std"
            /\ labor.description.name = RoomsOf(req)[i].name
            /\ paint.unit = "l"
            /\ req.laborRatePerHour = FZero => labor.total = FZero
            /\ NoFloor(RoomsOf(req)[i]) =>
                 /\ labor.quantity = FZero /\ labor.total = FZero
                 /\ paint.quantity = FZero /\ paint.total = FZero
    /\ resp.body.subtotal
         = round2(SumTotals(resp.body.items, Len(resp.body.items)))
    /\ resp.body.margin = Percent(resp.body.subtotal, marginPct(req))
    /\ resp.body.totalBeforeTax
         = round2(FAdd(resp.body.subtotal, resp.body.margin))
    /\ resp.body.tax = Percent(resp.body.totalBeforeTax, taxRate(req))
    /\ resp.body.total = round2(FAdd(resp.body.totalBeforeTax, resp.body.tax))

\* a maler Offer at rate 0 for a room of no floor area and a room that has
\* hours, with a material, so that the subtotal is not 0
C18_Witness ==
  /\ Ok200
  /\ req.trade = "maler"
  /\ req.laborRatePerHour = FZero
  /\ RoomsOf(req) = <<Leerraum, Wohnzimmer>>
  /\ resp.body.items[3].quantity # FZero
  /\ resp.body.items[3].total = FZero
  /\ resp.body.subtotal # FZero

\* C19: an Offer's id is "OF-" followed by the clock reading of its
\* creation: Offers created at different readings have different ids,
\* Offers created at the same reading have the same id and hence the same
\* generated/<id>.pdf path, under which the directory holds one file.
C19_IdFromClock ==
  /\ \A o \in Returned : o.id = <<"OF-", o.createdAt>>
  /\ \A o1, o2 \in Returned :
       /\ o1.createdAt # o2.createdAt => o1.id # o2.id
       /\ o1.createdAt = o2.createdAt =>
            /\ o1.id = o2.id
            /\ <<"generated/", o1.id, ".pdf">> = <<"generated/", o2.id, ".pdf">>
  /\ \A f \in generated : f.path = <<"generated/", f.offer.id, ".pdf">>
  /\ \A f1, f2 \in generated : f1.path = f2.path => f1 = f2

\* two different Offers of one clock reading, and in generated/ the one file
\* of that id, written from the second client's Offer
C19_Witness ==
  /\ Ok200
  /\ peer.pc = "done"
  /\ peer.resp.status = 200
  /\ peer.resp.body # resp.body
  /\ peer.resp.body.id = resp.body.id
  /\ generated = {[path |-> <<"generated/", resp.body.id, ".pdf">>,
                   offer |-> peer.resp.body]}

\* the formulas of C20 in double arithmetic, from a room's w, l and
\* effective height
WallAreaOf(w, l, ht) == FMul(FMul(F(2), FAdd(w, l)), ht)
HoursOf(wall, ceiling) ==
  FAdd(FAdd(FDiv(wall, 20), FDiv(ceiling, 25)), FDiv(FAdd(wall, ceiling), 60))
VolumeOf(wall, ceiling) == FDiv(FAdd(wall, ceiling), 8)

LaborLine(it, rate, hrs) ==
  /\ it.quantity = round2(hrs)
  /\ it.unitPrice = rate
  /\ it.total = round2(FMul(hrs, rate))

PaintLine(it, volume) ==
  /\ it.quantity = round2(volume)
  /\ it.unitPrice = F(6)
  /\ it.total = round2(FMul(volume, F(6)))

RoomLines(labor, paint, rate, wall, ceiling) ==
  /\ LaborLine(labor, rate, HoursOf(wall, ceiling))
  /\ PaintLine(paint, VolumeOf(wall, ceiling))

\* C20: for maler, the i-th room with width w, length l and effective height
\* h (2.6 when absent) has wall area 2(w + l)h, ceiling area w * l, hours
\* wall/20 + ceiling/25 + (wall + ceiling)/60 and paint volume
\* (wall + ceiling)/8; its labor item has quantity round2(hours), unitPrice
\* laborRatePerHour and total round2(hours * laborRatePerHour), its paint item
\* quantity round2(volume), unitPrice 6 and total round2(volume * 6).
C20_RoomFormulas ==
  (Ok200 /\ req.trade = "maler") =>
    \A i \in 1..Len(RoomsOf(req)) :
      RoomLines(resp.body.items[2 * i - 1], resp.body.items[2 * i],
                req.laborRatePerHour,
                WallAreaOf(RoomsOf(req)[i].width_m, RoomsOf(req)[i].length_m,
                           Nullish(RoomsOf(req)[i].height_m, Dec(26, 10))),
                FMul(RoomsOf(req)[i].width_m, RoomsOf(req)[i].length_m))

\* the Wohnzimmer of 4 x 5 x 2.6 at 55 per hour: 4.25 hours for 233.93 and
\* 8.35 litres for 50.10
C20_Witness ==
  /\ Ok200
  /\ req.trade = "maler"
  /\ req.laborRatePerHour = F(55)
  /\ RoomsOf(req) = <<Wohnzimmer, Flur>>
  /\ resp.body.items[1].quantity = Dec(425, 100)
  /\ resp.body.items[1].total = Dec(23393, 100)
  /\ resp.body.items[2].quantity = Dec(835, 100)
  /\ resp.body.items[2].total = Dec(501, 10)

\* C21: a default stands in only for an absent field.  marginPercentage 0
\* given: margin = 0; taxRatePercentage 0 given: tax = 0; a room with
\* height 0 given is computed with height 0, that is with wall area 0.
C21_ExplicitZero ==
  Ok200 =>
    /\ req.marginPercentage = FZero =>
         /\ resp.body.margin = FZero
         /\ resp.body.totalBeforeTax = resp.body.subtotal
    /\ req.taxRatePercentage = FZero =>
         /\ resp.body.tax = FZero
         /\ resp.body.total = resp.body.totalBeforeTax
    /\ req.trade = "maler" =>
         \A i \in 1..Len(RoomsOf(req)) :
           RoomsOf(req)[i].height_m = FZero =>
             RoomLines(resp.body.items[2 * i - 1], resp.body.items[2 * i],
                       req.laborRatePerHour, FZero,
                       FMul(RoomsOf(req)[i].width_m, RoomsOf(req)[i].length_m))

\* an Offer of subtotal above 0 for a maler body with a room of height 0
\* given and both percentages 0 given
C21_Witness ==
  /\ Ok200
  /\ req.trade = "maler"
  /\ req.marginPercentage = FZero
  /\ req.taxRatePercentage = FZero
  /\ RoomsOf(req) = <<Podest>>
  /\ resp.body.subtotal # FZero
  /\ resp.body.total = resp.body.subtotal

\* C22: for the same body, generateOffer of index.ts and
\* generateOfferFromInput of the offer-engine service answer with the same
\* status and, for an Offer, the same items in the same order, subtotal,
\* margin, totalBeforeTax, tax, total and currency.
C22_SameEngine ==
  (pc = "done" /\ peer.pc = "done" /\ peer.req = req) =>
    /\ peer.resp.status = resp.status
    /\ resp.status = 200 => Amounts(peer.resp.body) = Amounts(resp.body)

\* both copies have answered a maler body with rooms and materials
C22_Witness ==
  /\ Ok200
  /\ peer.pc = "done"
  /\ peer.req = req
  /\ peer.resp.status = 200
  /\ hasRooms(req)
  /\ Len(MaterialsOf(req)) = 2
  /\ Len(peer.resp.body.items) = 2 * Len(RoomsOf(req)) + 2
  /\ peer.resp.body.total # FZero

\* qty x unitPrice of one item, a missing qty or unitPrice counting as 0
ItemAmount(it) ==
  FMul(IF it.qty = Undefined THEN FZero ELSE it.qty,
       IF it.unitPrice = Undefined THEN FZero ELSE it.unitPrice)

\* the amounts of the items added up from the first to the last
RECURSIVE ItemSum(_, _)
ItemSum(list, acc) ==
  IF list = <<>> THEN acc
                 ELSE ItemSum(Tail(list), FAdd(acc, ItemAmount(Head(list))))

\* the backend has answered a POST /api/offers/generate that carried items
ItemsOfferDone ==
  /\ pc = "done"
  /\ req.route = "POST /api/offers/generate"
  /\ req.body.items # Undefined

\* C23: whatever marginRate and taxRate have been saved to settings.json, the
\* engine of index.mjs answers an items request with the items it was given,
\* subtotal = the sum of qty x unitPrice, margin = subtotal x 0.1 and
\* tax = (subtotal + margin) x 0.19, none of them rounded: the answer is a
\* function of the request alone, the same before and after the saves.
C23_SettingsIgnored ==
  ItemsOfferDone =>
    /\ resp.status = 200
    /\ resp.body.items = req.body.items
    /\ resp.body.subtotal = ItemSum(Elems(req.body.items), FZero)
    /\ resp.body.margin = FMul(resp.body.subtotal, Dec(1, 10))
    /\ resp.body.tax =
         FMul(FAdd(resp.body.subtotal, resp.body.margin), Dec(19, 100))

\* an offer with a subtotal, asked for after marginRate 20 and taxRate 7 have
\* been saved
C23_Witness ==
  /\ ItemsOfferDone
  /\ settings # Undefined
  /\ settings.marginRate = F(20)
  /\ settings.taxRate = F(7)
  /\ resp.status = 200
  /\ resp.body.subtotal # FZero

\* the backend has answered a login
LoginDone == pc = "done" /\ req.route = "POST /api/auth/login"

\* the key of the login in flight
LoginKey == key(ip, req.body.username)

\* C24: the lock grows with the failures: the k-th login in a row that fails
\* for a key locks the key for min(60 k, 600) seconds from that moment.
C24_Escalation ==
  (LoginDone /\ resp.status = 401) =>
    FAILS[LoginKey].until =
      now + 1000 * (IF 60 * Failures(LoginKey) < 600
                      THEN 60 * Failures(LoginKey) ELSE 600)

\* C25: a GET of a protected page by a session without user, before a login
\* or after the logout, is answered by the redirect to /login.html.
C25_PagesGuarded ==
  (/\ pc = "done"
   /\ req.route = "GET"
   /\ req.body.path \in PROTECTED_HTML
   /\ sessions[req.client].user = Undefined) =>
    /\ resp.status = 302
    /\ resp.body.location = "/login.html"

\* the backend answers a login that carries a username and a password
LoginStep ==
  /\ pc = "pending"
  /\ pc' = "done"
  /\ req.route = "POST /api/auth/login"
  /\ req.body.username # Undefined
  /\ req.body.password # Undefined

\* the key of the login has a failure record that has not run out
KeyLocked == LoginKey \in DOMAIN FAILS /\ now < FAILS[LoginKey].until

\* the login names an active user of users.json and carries its password
RightPassword ==
  \E i \in 1..Len(users) :
    /\ users[i].username = req.body.username
    /\ users[i].active
    /\ users[i].passhash = hashSync(req.body.password)

Usernames(list) == {list[i].username : i \in 1..Len(list)}

\* a user of list is in the list after
Kept(list, after) == \A i \in 1..Len(list) : \E j \in 1..Len(after) :
                       after[j] = list[i]

\* C27: however the POST /api/users of admin sessions interleave, users.json
\* never holds a username twice, an answer 409 adds nothing, and a write to
\* users.json keeps every user stored before it.
C27_UsersKept ==
  [][/\ Cardinality(Usernames(users')) = Len(users')
     /\ (pc' = "done" /\ req'.route = "POST /api/users") =>
          /\ resp'.status = 409 => users' = users
          /\ Kept(users, users')]_vars

\* the backend answers a request to one of the users routes
UsersStep == pc = "pending" /\ pc' = "done" /\ req.route \in UsersRoutes

\* the session of the request has no user, has a user who is no admin
NoUser == sessions[req.client].user = Undefined
NoAdmin == ~NoUser /\ sessions[req.client].user.role # "admin"

\* the x-csrf-token of the request is the token of its session
TokenRight == req.token # Undefined /\ req.token = sessions'[req.client].csrf

\* C28 as the spec words it: the users routes change users.json for an admin
\* only, a request without session user is answered 401, one of a user who
\* is no admin 403, and neither changes users.json.
C28_AdminOnly401 ==
  [][UsersStep =>
       /\ users' # users => ~NoUser /\ ~NoAdmin
       /\ NoUser => resp'.status = 401 /\ users' = users
       /\ NoAdmin => resp'.status = 403 /\ users' = users]_vars

\* C28: the users routes change users.json for an admin with the right CSRF
\* token only; a request without session user is answered 401 when its token
\* is right and 403 when it is not, one of a user who is no admin 403, and
\* none of them changes users.json.
C28_AdminOnly ==
  [][UsersStep =>
       /\ users' # users => ~NoUser /\ ~NoAdmin /\ TokenRight
       /\ NoUser =>
            /\ resp'.status = IF TokenRight THEN 401 ELSE 403
            /\ users' = users
       /\ NoAdmin => resp'.status = 403 /\ users' = users]_vars

\* bob, logged in and sending the token of his session, is refused by
\* POST /api/users
C28_Witness ==
  /\ pc = "done"
  /\ req.route = "POST /api/users"
  /\ req.token = sessions[req.client].csrf
  /\ sessions[req.client].user # Undefined
  /\ sessions[req.client].user.role = "user"
  /\ resp.status = 403
  /\ find(users, Str("bob")) # Undefined

\* the backend answers a request to a route behind requireCsrf
CsrfStep == pc = "pending" /\ pc' = "done" /\ req.route \in CsrfRoutes

\* C29: a request to a route behind requireCsrf whose x-csrf-token is missing
\* or is not the token of its session is answered 403, and users.json,
\* settings.json, customers.json, projects.json, the generated files, the
\* logo and the uploads are what they were.
C29_CsrfFrame ==
  [][(CsrfStep /\ ~TokenRight) =>
       /\ resp'.status = 403
       /\ UNCHANGED <<users, settings, customers, projects, generated,
                      uploads>>]_vars

\* the logged-in admin asks to delete a customer that is there with a token
\* that is not the one of the session, and is answered 403
C29_Witness ==
  /\ pc = "done"
  /\ req.route = "DELETE /api/customers/:id"
  /\ req.token # Undefined
  /\ req.token # sessions[req.client].csrf
  /\ sessions[req.client].user # Undefined
  /\ findIndex(customers, req.body.id) # 0
  /\ resp.status = 403

\* the login names a user of users.json whose active flag is off
Inactive ==
  \E i \in 1..Len(users) :
    users[i].username = req.body.username /\ ~users[i].active

\* the failure record a login writes for its key at this moment
Recorded ==
  /\ LoginKey \in DOMAIN FAILS'
  /\ FAILS'[LoginKey].until > now
  /\ FAILS' # FAILS

\* the backend has toggled a user
ToggleStep ==
  /\ pc = "pending"
  /\ pc' = "done"
  /\ req.route = "PUT /api/users/:id/toggle"
  /\ resp'.status = 200

====
